---- MODULE Spec2Model ----
(***************************************************************************)
(* A model of the evidence extraction and arbitration engine of            *)
(* geo_paper_scrap: the LLM filler (src/src/llm_fill.py), the cost logger  *)
(* (src/src/cost_logger.py), the rule engine (src/src/extract_rules.py)    *)
(* and the arbitrator (src/src/export_clinical.py).                        *)
(*                                                                         *)
(* Conventions.                                                            *)
(*  - A Python str is a sequence of one-character strings, so that strip,  *)
(*    lower and the quote normalisation are computed, not assumed.         *)
(*  - A float confidence is an integer number of hundredths (0.3 is 30).   *)
(*  - A JSON value is a record [t, n, s, items]; a Python dict is a        *)
(*    function from key strings to JSON values.                            *)
(*  - An operation that can raise returns [raised |-> BOOLEAN, ...].       *)
(***************************************************************************)
EXTENDS Integers, Sequences, FiniteSets, TLC

VARIABLES
    pc,          \* fill_fields: the position of the call
    inp,         \* fill_fields: its arguments and what each backend answers
    user_prompt, \* fill_fields: the local user_prompt
    parsed,      \* fill_fields: the local parsed
    confidence,  \* fill_fields: the local confidence
    trace,       \* the backend invocations and returns, in order
    entries,     \* CostLogger.entries
    ret,         \* what fill_fields returned (or that it raised)
    pp_in,       \* _post_process: the dict handed in
    pp_out,      \* _post_process: the outcome
    mpc,         \* process_one: the position between apply_rules and merge_clinical
    snippets,    \* process_one: the snippets find_snippets produced
    llm_result,  \* process_one: what fill_fields returned, or None
    rule_hits,   \* process_one: what apply_rules returned
    row,         \* merge_clinical: the row it fills in
    field_data,  \* merge_clinical: the per-field info map, in insertion order
    clinical_problems, \* merge_clinical: the list it appends problems to
    ppc,         \* process_one: the position of the call
    args,        \* process_one: enable_papers, enable_llm and what the outside world does
    assets,      \* process_one: what get_paper_assets returned
    cfg,         \* the PaperConfig: window_chars, window_step, max_snippets_per_field
    problem_list,\* process_one: the local problems
    outcome,     \* process_one: what it returned
    calls,       \* process_one: its calls of fill_fields, merge_clinical and write_artifacts
    futs,        \* main: the futures, one per submitted id
    sinks,       \* main: the rows of series_master.csv, samples.csv and problems.csv
    locks,       \* main: the holder of each sink's lock
    writer,      \* main: the position of the loop over as_completed
    win_idx,     \* sliding_window: the local idx
    yielded      \* sliding_window: the (idx, slice) pairs it has yielded

fillVars == <<pc, inp, user_prompt, parsed, confidence, trace, entries, ret>>
postVars == <<pp_in, pp_out>>
mergeVars == <<mpc, snippets, llm_result, rule_hits, row, field_data, clinical_problems>>
procVars == <<ppc, args, assets, cfg, problem_list, outcome, calls>>
mainVars == <<futs, sinks, locks, writer>>
winVars == <<win_idx, yielded>>
vars == <<fillVars, postVars, mergeVars, procVars, mainVars, winVars>>

-----------------------------------------------------------------------------
(* Python strings *)

\* What str.isspace and the pattern \s accept; nbsp is the character \xa0.
WHITESPACE == {" ", "\t", "\n", "nbsp"}

RECURSIVE LStrip(_)
LStrip(cs) ==
    IF cs # <<>> /\ Head(cs) \in WHITESPACE THEN LStrip(Tail(cs)) ELSE cs

RECURSIVE RStrip(_)
RStrip(cs) ==
    IF cs # <<>> /\ cs[Len(cs)] \in WHITESPACE
    THEN RStrip(SubSeq(cs, 1, Len(cs) - 1))
    ELSE cs

\* str.strip()
Strip(cs) == RStrip(LStrip(cs))

\* str.lower() of one character, or of one word where a text is written
\* word by word.
LowerChar(c) ==
    CASE c = "Y" -> "y" [] c = "E" -> "e" [] c = "S" -> "s" [] c = "N" -> "n"
      [] c = "O" -> "o" [] c = "Q" -> "q"
      [] c = "IUGR" -> "iugr" [] c = "Gestational" -> "gestational" [] c = "USA" -> "usa" [] c = "China" -> "china"
      [] c = "Term" -> "term" [] c = "Parity" -> "parity"
      [] c = "Collected" -> "collected" [] c = "Mercy" -> "mercy"
      [] c = "Enrolled" -> "enrolled" [] c = "Lima" -> "lima"
      [] c = "JAPAN" -> "japan" [] c = "Ward" -> "ward"
      [] OTHER -> c

\* str.lower()
Lower(cs) == [i \in 1..Len(cs) |-> LowerChar(cs[i])]

\* The curly quote glyphs are written lq, rq and rs.
normalize_quotes(cs) ==
    [i \in 1..Len(cs) |->
        CASE cs[i] = "lq" -> "\""
          [] cs[i] = "rq" -> "\""
          [] cs[i] = "rs" -> "'"
          [] OTHER -> cs[i]]

DigitVal(c) ==
    CASE c = "0" -> 0 [] c = "1" -> 1 [] c = "2" -> 2 [] c = "3" -> 3
      [] c = "4" -> 4 [] c = "5" -> 5 [] c = "6" -> 6 [] c = "7" -> 7
      [] c = "8" -> 8 [] c = "9" -> 9 [] OTHER -> 0

AllDigits(cs) ==
    /\ cs # <<>>
    /\ \A i \in 1..Len(cs) : cs[i] \in {"0", "1", "2", "3", "4", "5", "6", "7", "8", "9"}

RECURSIVE DigitsVal(_)
DigitsVal(cs) ==
    IF cs = <<>> THEN 0
    ELSE 10 * DigitsVal(SubSeq(cs, 1, Len(cs) - 1)) + DigitVal(cs[Len(cs)])

-----------------------------------------------------------------------------
(* JSON values and Python dicts *)

JNull == [t |-> "null", n |-> 0, s |-> <<>>, items |-> <<>>]
JNum(k) == [t |-> "num", n |-> k, s |-> <<>>, items |-> <<>>]
JStr(cs) == [t |-> "str", n |-> 0, s |-> cs, items |-> <<>>]
JBool(b) == [t |-> "bool", n |-> IF b THEN 1 ELSE 0, s |-> <<>>, items |-> <<>>]
JList(xs) == [t |-> "list", n |-> 0, s |-> <<>>, items |-> xs]

\* Python truthiness of a JSON value
Truthy(j) ==
    CASE j.t = "null" -> FALSE
      [] j.t = "num" -> j.n # 0
      [] j.t = "bool" -> j.n = 1
      [] j.t = "str" -> j.s # <<>>
      [] j.t = "list" -> j.items # <<>>

EmptyDict == [k \in {} |-> JNull]

\* dict.get(key): None when the key is absent
Get(d, k) == IF k \in DOMAIN d THEN d[k] ELSE JNull

\* dict.get(key, default)
GetDefault(d, k, dflt) == IF k \in DOMAIN d THEN d[k] ELSE dflt

\* float(x) in hundredths: a number, a bool, or a plain decimal string with
\* at most two decimals; ValueError or TypeError otherwise.
FloatOfStr(cs) ==
    LET body == Strip(cs)
        dots == {i \in 1..Len(body) : body[i] = "."}
    IN  IF dots = {} THEN
            IF AllDigits(body)
            THEN [raised |-> FALSE, val |-> 100 * DigitsVal(body)]
            ELSE [raised |-> TRUE, val |-> 0]
        ELSE
            LET d == CHOOSE i \in dots : TRUE
                ip == SubSeq(body, 1, d - 1)
                fp == SubSeq(body, d + 1, Len(body))
            IN  IF Cardinality(dots) = 1 /\ AllDigits(ip) /\ AllDigits(fp) /\ Len(fp) <= 2
                THEN [raised |-> FALSE,
                      val |-> 100 * DigitsVal(ip)
                              + (IF Len(fp) = 1 THEN 10 * DigitsVal(fp) ELSE DigitsVal(fp))]
                ELSE [raised |-> TRUE, val |-> 0]

FloatOf(j) ==
    CASE j.t = "num" -> [raised |-> FALSE, val |-> j.n]
      [] j.t = "bool" -> [raised |-> FALSE, val |-> 100 * j.n]
      [] j.t = "str" -> FloatOfStr(j.s)
      [] OTHER -> [raised |-> TRUE, val |-> 0]

\* int(x): a number, a bool or a digit string; ValueError or TypeError otherwise.
IntOf(j) ==
    CASE j.t = "num" -> [raised |-> FALSE, val |-> j.n]
      [] j.t = "bool" -> [raised |-> FALSE, val |-> j.n]
      [] j.t = "str" ->
            IF AllDigits(Strip(j.s))
            THEN [raised |-> FALSE, val |-> DigitsVal(Strip(j.s))]
            ELSE [raised |-> TRUE, val |-> 0]
      [] OTHER -> [raised |-> TRUE, val |-> 0]

Max(a, b) == IF a >= b THEN a ELSE b
Min(a, b) == IF a <= b THEN a ELSE b

-----------------------------------------------------------------------------
(* llm_fill.py: the field lists and _post_process *)

LLM_FIELDS == <<
    "pregnancy_trimester", "birthweight_provided", "ga_at_delivery_provided",
    "ga_at_delivery_weeks", "ga_at_collection_provided", "ga_at_collection_weeks",
    "sex_of_offspring_provided", "parity_provided", "gravidity_provided",
    "num_offspring_per_pregnancy_provided", "race_ethnicity_provided",
    "genetic_ancestry_or_strain_provided", "maternal_height_provided",
    "maternal_prepreg_weight_provided", "paternal_height_provided",
    "paternal_weight_provided", "maternal_age_at_collection_provided",
    "paternal_age_at_collection_provided",
    "samples_from_pregnancy_complications_collected", "mode_of_delivery_provided",
    "pregnancy_complications_list", "fetal_complications_listed",
    "hospital_center", "country_of_collection" >>

\* The entries of LLM_FIELDS for which field.endswith("_provided") holds.
ProvidedFields == {
    "birthweight_provided", "ga_at_delivery_provided", "ga_at_collection_provided",
    "sex_of_offspring_provided", "parity_provided", "gravidity_provided",
    "num_offspring_per_pregnancy_provided", "race_ethnicity_provided",
    "genetic_ancestry_or_strain_provided", "maternal_height_provided",
    "maternal_prepreg_weight_provided", "paternal_height_provided",
    "paternal_weight_provided", "maternal_age_at_collection_provided",
    "paternal_age_at_collection_provided", "mode_of_delivery_provided" }

SYSTEM_PROMPT == "You are a careful information extractor. Use ONLY the provided snippets."

yes == <<"y", "e", "s">>
no == <<"n", "o">>

\* _normaliseYesNo: None stays None, a str becomes "yes", "no" or None, and
\* any other value has no strip(): AttributeError.
_normaliseYesNo(value) ==
    CASE value.t = "null" -> [raised |-> FALSE, val |-> JNull]
      [] value.t = "str" ->
            LET v == Lower(Strip(value.s))
            IN  [raised |-> FALSE, val |-> IF v \in {yes, no} THEN JStr(v) ELSE JNull]
      [] OTHER -> [raised |-> TRUE, val |-> JNull]

\* What `for e in evidence` iterates over: a list's items, a str's
\* characters; a number or a bool is not iterable (TypeError).
Iterable(j) == j.t \in {"list", "str"}

IterItems(j) ==
    IF j.t = "list" THEN j.items ELSE [i \in 1..Len(j.s) |-> JStr(<<j.s[i]>>)]

KeepsEvidence(e) == e.t = "str" /\ Strip(e.s) # <<>>

CleanEvidence(xs) ==
    LET kept == SelectSeq(xs, KeepsEvidence)
    IN  [i \in 1..Len(kept) |-> JStr(normalize_quotes(Strip(kept[i].s)))]

\* A variant of StoredConfidence that caps an evidence-free confidence at
\* 0.3 instead of forcing it.
StoredConfidenceCapped(conf, evidence) ==
    IF evidence # <<>> THEN Max(0, Min(100, conf))
    ELSE Min(Max(0, Min(100, conf)), 30)

\* The confidence _post_process stores, given the coerced float and the
\* cleaned evidence list (lines 161-164).
FORCED_CONFIDENCE == 30

StoredConfidence(conf, evidence) ==
    IF evidence # <<>> THEN Max(0, Min(100, conf)) ELSE FORCED_CONFIDENCE

_post_process(data) ==
    LET raw == Get(data, "evidence_quotes")
        ev0 == IF Truthy(raw) THEN raw ELSE JList(<<>>)
        evidence == CleanEvidence(IterItems(ev0))
        craw == Get(data, "confidence")
        c0 == IF Truthy(craw) THEN craw ELSE JNum(0)
        c1 == IF FloatOf(c0).raised THEN 0 ELSE FloatOf(c0).val
        badProvided == \E f \in ProvidedFields : _normaliseYesNo(Get(data, f)).raised
        keys == (DOMAIN data) \cup {"evidence_quotes", "confidence"} \cup ProvidedFields
    IN  IF ~Iterable(ev0) \/ badProvided
        THEN [raised |-> TRUE, data |-> data]
        ELSE [raised |-> FALSE,
              data |-> [k \in keys |->
                  CASE k = "evidence_quotes" -> JList(evidence)
                    [] k = "confidence" -> JNum(StoredConfidence(c1, evidence))
                    [] k \in ProvidedFields -> _normaliseYesNo(Get(data, k)).val
                    [] OTHER -> data[k]]]

-----------------------------------------------------------------------------
(* What a backend hands back: the first component of complete_json's tuple *)
(* is whatever json.loads produced.                                        *)

PObj(d) == [t |-> "object", obj |-> d]
PNone == [t |-> "none", obj |-> EmptyDict]
PList == [t |-> "list", obj |-> EmptyDict]

\* `if parsed:` -- None and {} are falsy, a non-empty list or dict is truthy.
PyTruthy(p) ==
    CASE p.t = "object" -> DOMAIN p.obj # {}
      [] p.t = "list" -> TRUE
      [] OTHER -> FALSE

\* _post_process(parsed): a non-dict has no get(): AttributeError.
PostProcessParsed(p) ==
    IF p.t = "object"
    THEN [raised |-> _post_process(p.obj).raised, parsed |-> PObj(_post_process(p.obj).data)]
    ELSE [raised |-> TRUE, parsed |-> p]

-----------------------------------------------------------------------------
(* cost_logger.py *)

CostEntry(gse, provider, model, prompt_tokens, completion_tokens) ==
    [gse |-> gse, provider |-> provider, model |-> model,
     prompt_tokens |-> prompt_tokens, completion_tokens |-> completion_tokens]

\* CostLogger.log: the int() conversions run before the append, so a usage
\* value int() rejects raises and leaves entries as they were.
CostLoggerLog(es, gse, provider, model, usage) ==
    LET p == IntOf(GetDefault(usage, "prompt_tokens", JNum(0)))
        c == IntOf(GetDefault(usage, "completion_tokens", JNum(0)))
    IN  IF p.raised \/ c.raised
        THEN [raised |-> TRUE, entries |-> es]
        ELSE [raised |-> FALSE,
              entries |-> Append(es, CostEntry(gse, provider, model, p.val, c.val))]

-----------------------------------------------------------------------------
(* llm_client.py and the arguments of fill_fields *)

\* A backend's answer to complete_json: it raises, or it returns the tuple
\* (parsed, usage).
Raises == [raises |-> TRUE, parsed |-> PNone, usage |-> EmptyDict]
Returns(p, u) == [raises |-> FALSE, parsed |-> p, usage |-> u]

\* LLMClient.complete_json: a client that is not available raises
\* RuntimeError before any provider is called.
complete_json(client, answer) == IF client = "available" THEN answer ELSE Raises

Snippet(locator, section_title, text) ==
    [locator |-> locator, section_title |-> section_title, text |-> text]

\* _build_user_prompt: the field names and, per snippet in order, its
\* locator, its section title and its text.
_build_user_prompt(fields, snips) == [fields |-> fields, excerpts |-> snips]

Quote == <<" ", "lq", "q", "rq">>

UsageOk == [k \in {"prompt_tokens", "completion_tokens"} |->
                IF k = "prompt_tokens" THEN JNum(12) ELSE JNum(3)]
UsageBad == [k \in {"prompt_tokens", "completion_tokens"} |->
                IF k = "prompt_tokens" THEN JNull ELSE JNum(3)]

\* The objects a backend may return: every combination of a reported
\* confidence (absent, 0.4, 0.6, 0.9) and an evidence_quotes entry (absent,
\* one quote, the number 5), and two objects with a parity_provided entry.

ObjectOf(c, e, extra) ==
    LET keys == (IF c = JNull THEN {} ELSE {"confidence"})
                \cup (IF e = JNull THEN {} ELSE {"evidence_quotes"})
                \cup DOMAIN extra
    IN  [k \in keys |->
            CASE k = "confidence" -> c
              [] k = "evidence_quotes" -> e
              [] OTHER -> extra[k]]

ParityYes == [k \in {"parity_provided"} |-> JStr(<<" ", "Y", "e", "s">>)]
ParityTrue == [k \in {"parity_provided"} |-> JBool(TRUE)]

ObjectChoices ==
    {ObjectOf(c, e, EmptyDict) :
        c \in {JNull, JNum(40), JNum(60), JNum(90)},
        e \in {JNull, JList(<<JStr(Quote)>>), JNum(5)}}
    \cup {ObjectOf(JNum(90), JList(<<JStr(Quote)>>), x) : x \in {ParityYes, ParityTrue}}

ParsedChoices == {PNone, PList} \cup {PObj(d) : d \in ObjectChoices}

Good40 == PObj(ObjectOf(JNum(40), JList(<<JStr(Quote)>>), EmptyDict))
Good90 == PObj(ObjectOf(JNum(90), JList(<<JStr(Quote)>>), EmptyDict))

AnswerChoices ==
    {Raises}
    \cup {Returns(p, UsageOk) : p \in ParsedChoices}
    \cup {Returns(p, u) : p \in {Good40, Good90}, u \in {EmptyDict, UsageBad}}


\* PaperConfig.escalate_confidence
ESCALATE_CONFIDENCE == 60

Inputs ==
    [gse : {"GSE1"},
     escalate_confidence : {ESCALATE_CONFIDENCE},
     missing_fields : {<<>>, <<"pregnancy_trimester", "parity_provided">>},
     snippets : {<<>>, <<Snippet("offset:0", "Methods", "first trimester")>>},
     primary_client : {"none", "unavailable", "available"},
     fallback_client : {"none", "unavailable", "available"},
     cost_logger : {"none", "present"},
     primary_answer : AnswerChoices,
     fallback_answer : AnswerChoices]

\* PaperConfig's providers and models, as main hands them to LLMClient.
Provider(backend) == IF backend = "primary" THEN "openai" ELSE "anthropic"
Model(backend) == IF backend = "primary" THEN "gpt-4.1-mini" ELSE "claude-3.5-sonnet"

-----------------------------------------------------------------------------
(* llm_fill.py: fill_fields *)

Empty == [kind |-> "empty", values |-> EmptyDict]
Pending == [kind |-> "pending", values |-> EmptyDict]
Raised == [kind |-> "raised", values |-> EmptyDict]
Result(p) == [kind |-> "result", values |-> p.obj]

Invoke(backend, prompt) ==
    [ev |-> "invoke", backend |-> backend, system |-> SYSTEM_PROMPT, user |-> prompt]
Return(backend) ==
    [ev |-> "return", backend |-> backend, system |-> SYSTEM_PROMPT, user |-> user_prompt]

\* A variant of NoPrimary that tests only for an absent client.
NoPrimaryOnlyAbsent(i) == i.primary_client = "none"

\* Lines 116-120: nothing to do, or no primary backend to ask.
NoWork(i) == i.missing_fields = <<>> \/ i.snippets = <<>>
NoPrimary(i) == i.primary_client # "available"

\* Lines 125-131, after complete_json has answered: the try block unpacks
\* the tuple and records the usage; any exception in it leaves parsed None.
TryBlock(i, backend, answer, es) ==
    LET logs == i.cost_logger = "present" /\ DOMAIN answer.usage # {}
        logged == CostLoggerLog(es, i.gse, Provider(backend), Model(backend), answer.usage)
    IN  IF answer.raises THEN [raised |-> TRUE, parsed |-> PNone, entries |-> es]
        ELSE IF logs /\ logged.raised THEN [raised |-> TRUE, parsed |-> PNone, entries |-> es]
        ELSE [raised |-> FALSE, parsed |-> answer.parsed,
              entries |-> IF logs THEN logged.entries ELSE es]

\* Line 135: the confidence of the post-processed primary result.
ConfidenceOf(p) ==
    IF Get(p.obj, "confidence").t # "null" THEN Get(p.obj, "confidence").n ELSE 0

\* A variant of ShouldEscalate that also escalates at the threshold.
ShouldEscalateAtThreshold(conf, i) ==
    conf <= i.escalate_confidence /\ i.fallback_client = "available"

\* Line 136: the escalation condition.
ShouldEscalate(conf, i) ==
    conf < i.escalate_confidence /\ i.fallback_client = "available"

\* Line 143: parsed_fb replaces parsed only on a strictly higher confidence.
FallbackWins(fb, conf) ==
    (IF Truthy(Get(fb.obj, "confidence")) THEN Get(fb.obj, "confidence").n ELSE 0) > conf

\* Lines 138-147: the fallback answer handled inside its try block.
AfterFallback(i, answer, es, prim, conf) ==
    LET t == TryBlock(i, "fallback", answer, es)
        pp == PostProcessParsed(t.parsed)
    IN  IF t.raised THEN [parsed |-> prim, entries |-> es]
        ELSE IF pp.raised THEN [parsed |-> prim, entries |-> t.entries]
        ELSE IF FallbackWins(pp.parsed, conf) THEN [parsed |-> pp.parsed, entries |-> t.entries]
        ELSE [parsed |-> prim, entries |-> t.entries]

\* A variant of PcAfterPrimary that asks the primary again after a failure.
PcAfterPrimaryRetrying(failed) == IF failed THEN "entry" ELSE "primary_done"

\* The position after the primary call has answered, whatever it answered:
\* a backend is asked once.
PcAfterPrimary(failed) == "primary_done"

\* fill_fields as a whole: what it returns and what the cost sink holds
\* afterwards, for a sink that held es.
fill_fields(i, es) ==
    IF NoWork(i) \/ NoPrimary(i) THEN [ret |-> Empty, entries |-> es]
    ELSE
        LET t == TryBlock(i, "primary", complete_json(i.primary_client, i.primary_answer), es)
            pp == PostProcessParsed(t.parsed)
            conf == ConfidenceOf(pp.parsed)
            fb == AfterFallback(i, complete_json(i.fallback_client, i.fallback_answer),
                                t.entries, pp.parsed, conf)
        IN  IF ~PyTruthy(t.parsed) THEN [ret |-> Empty, entries |-> t.entries]
            ELSE IF pp.raised THEN [ret |-> Raised, entries |-> t.entries]
            ELSE IF ShouldEscalate(conf, i) THEN [ret |-> Result(fb.parsed), entries |-> fb.entries]
            ELSE [ret |-> Result(pp.parsed), entries |-> t.entries]

FillInit ==
    /\ pc = "entry"
    /\ inp \in Inputs
    /\ user_prompt = _build_user_prompt(<<>>, <<>>)
    /\ parsed = PNone
    /\ confidence = 0
    /\ trace = <<>>
    /\ entries = <<>>
    /\ ret = Pending

ReturnNoWork ==
    /\ pc = "entry"
    /\ NoWork(inp)
    /\ pc' = "done"
    /\ ret' = Empty
    /\ UNCHANGED <<postVars, mergeVars, procVars, mainVars, winVars>>
    /\ UNCHANGED <<inp, user_prompt, parsed, confidence, trace, entries>>

ReturnNoPrimary ==
    /\ pc = "entry"
    /\ ~NoWork(inp)
    /\ NoPrimary(inp)
    /\ pc' = "done"
    /\ ret' = Empty
    /\ UNCHANGED <<postVars, mergeVars, procVars, mainVars, winVars>>
    /\ UNCHANGED <<inp, user_prompt, parsed, confidence, trace, entries>>

InvokePrimary ==
    /\ pc = "entry"
    /\ ~NoWork(inp)
    /\ ~NoPrimary(inp)
    /\ user_prompt' = _build_user_prompt(inp.missing_fields, inp.snippets)
    /\ trace' = Append(trace, Invoke("primary", user_prompt'))
    /\ pc' = "primary_call"
    /\ UNCHANGED <<postVars, mergeVars, procVars, mainVars, winVars>>
    /\ UNCHANGED <<inp, parsed, confidence, entries, ret>>

PrimaryAnswers ==
    /\ pc = "primary_call"
    /\ LET t == TryBlock(inp, "primary",
                         complete_json(inp.primary_client, inp.primary_answer), entries)
       IN  /\ parsed' = t.parsed
           /\ entries' = t.entries
           /\ pc' = PcAfterPrimary(t.raised)
    /\ trace' = Append(trace, Return("primary"))
    /\ UNCHANGED <<postVars, mergeVars, procVars, mainVars, winVars>>
    /\ UNCHANGED <<inp, user_prompt, confidence, ret>>

ReturnEmpty ==
    /\ pc = "primary_done"
    /\ ~PyTruthy(parsed)
    /\ pc' = "done"
    /\ ret' = Empty
    /\ UNCHANGED <<postVars, mergeVars, procVars, mainVars, winVars>>
    /\ UNCHANGED <<inp, user_prompt, parsed, confidence, trace, entries>>

PostProcessRaises ==
    /\ pc = "primary_done"
    /\ PyTruthy(parsed)
    /\ PostProcessParsed(parsed).raised
    /\ pc' = "done"
    /\ ret' = Raised
    /\ UNCHANGED <<postVars, mergeVars, procVars, mainVars, winVars>>
    /\ UNCHANGED <<inp, user_prompt, parsed, confidence, trace, entries>>

ReturnPrimary ==
    /\ pc = "primary_done"
    /\ PyTruthy(parsed)
    /\ LET pp == PostProcessParsed(parsed)
       IN  /\ ~pp.raised
           /\ ~ShouldEscalate(ConfidenceOf(pp.parsed), inp)
           /\ parsed' = pp.parsed
           /\ confidence' = ConfidenceOf(pp.parsed)
           /\ ret' = Result(pp.parsed)
    /\ pc' = "done"
    /\ UNCHANGED <<postVars, mergeVars, procVars, mainVars, winVars>>
    /\ UNCHANGED <<inp, user_prompt, trace, entries>>

InvokeFallback ==
    /\ pc = "primary_done"
    /\ PyTruthy(parsed)
    /\ LET pp == PostProcessParsed(parsed)
       IN  /\ ~pp.raised
           /\ ShouldEscalate(ConfidenceOf(pp.parsed), inp)
           /\ parsed' = pp.parsed
           /\ confidence' = ConfidenceOf(pp.parsed)
    /\ trace' = Append(trace, Invoke("fallback", user_prompt))
    /\ pc' = "fallback_call"
    /\ UNCHANGED <<postVars, mergeVars, procVars, mainVars, winVars>>
    /\ UNCHANGED <<inp, user_prompt, entries, ret>>

FallbackAnswers ==
    /\ pc = "fallback_call"
    /\ LET a == AfterFallback(inp, complete_json(inp.fallback_client, inp.fallback_answer),
                              entries, parsed, confidence)
       IN  /\ parsed' = a.parsed
           /\ entries' = a.entries
           /\ confidence' = ConfidenceOf(a.parsed)
           /\ ret' = Result(a.parsed)
    /\ trace' = Append(trace, Return("fallback"))
    /\ pc' = "done"
    /\ UNCHANGED <<postVars, mergeVars, procVars, mainVars, winVars>>
    /\ UNCHANGED <<inp, user_prompt>>

PostIdle ==
    /\ pp_in = EmptyDict
    /\ pp_out = [done |-> FALSE, raised |-> FALSE, data |-> EmptyDict]

\* No document is being merged.
MergeIdle ==
    /\ mpc = "idle"
    /\ snippets = <<>>
    /\ llm_result = [kind |-> "none", values |-> EmptyDict]
    /\ rule_hits = <<>>
    /\ row = EmptyDict
    /\ field_data = <<>>
    /\ clinical_problems = <<>>

\* process_one is not running.
ProcIdle ==
    /\ ppc = "idle"
    /\ args = [enable_papers |-> FALSE, enable_llm |-> FALSE]
    /\ assets = [text |-> <<>>, source |-> <<>>]
    /\ cfg = [window_chars |-> 0, window_step |-> 0, max_snippets_per_field |-> 0]
    /\ problem_list = <<>>
    /\ outcome = [kind |-> "none"]
    /\ calls = <<>>

\* main is not running.
MainIdle ==
    /\ futs = <<>>
    /\ sinks = [series |-> <<>>, samples |-> <<>>, problems |-> <<>>]
    /\ locks = [series |-> "free", samples |-> "free", problems |-> "free"]
    /\ writer = [at |-> "idle"]

\* sliding_window is not running.
WinIdle ==
    /\ win_idx = 0
    /\ yielded = <<>>

Init == FillInit /\ PostIdle /\ MergeIdle /\ ProcIdle /\ MainIdle /\ WinIdle

Next ==
    \/ ReturnNoWork
    \/ ReturnNoPrimary
    \/ InvokePrimary
    \/ PrimaryAnswers
    \/ ReturnEmpty
    \/ PostProcessRaises
    \/ ReturnPrimary
    \/ InvokeFallback
    \/ FallbackAnswers

Spec == Init /\ [][Next]_vars

-----------------------------------------------------------------------------
(* _post_process on its own: every dict of a bounded family is handed in.  *)

FillIdle ==
    /\ pc = "idle"
    /\ inp = CHOOSE i \in Inputs : TRUE
    /\ user_prompt = _build_user_prompt(<<>>, <<>>)
    /\ parsed = PNone
    /\ confidence = 0
    /\ trace = <<>>
    /\ entries = <<>>
    /\ ret = Pending

\* The dicts handed in.  The confidence entries: absent, null, numbers
\* below, inside and above [0,1], decimal and non-decimal strings, a bool and
\* a list.  The evidence_quotes entries: absent, an empty list, lists whose
\* entries are quotes, blank strings and non-strings, a str, and a number.
PostInputs ==
    LET confidences ==
            {JNull}
            \cup {JNum(k) : k \in {-10, 0, 20, 30, 90, 100, 150}}
            \cup {JStr(<<"0", ".", "8">>), JStr(<<"h", "i", "g", "h">>), JStr(<<>>),
                  JBool(TRUE), JList(<<JNum(1)>>)}
        evidences ==
            {JNull, JList(<<>>), JNum(5), JStr(<<"a", " ">>)}
            \cup {JList(xs) : xs \in {<<JStr(Quote)>>, <<JStr(<<" ", "\t">>)>>, <<JNum(7)>>,
                                      <<JNum(7), JStr(<<"q">>), JNull>>,
                                      <<JStr(<<"a">>), JStr(<<"b", "rs">>)>>}}
        provided ==
            {EmptyDict, ParityYes, ParityTrue,
             [k \in {"parity_provided"} |-> JStr(<<"N", "O">>)],
             [k \in {"parity_provided"} |-> JStr(<<"m", "a", "y", "b", "e">>)],
             [k \in {"parity_provided", "pregnancy_trimester"} |->
                 IF k = "parity_provided" THEN JNull ELSE JStr(<<"1", "s", "t">>)]}
    IN  {ObjectOf(c, e, x) : c \in confidences, e \in evidences, x \in provided}
        \cup {[k \in {"confidence", "evidence_quotes"} |-> JNull]}

PostInit ==
    /\ FillIdle
    /\ MergeIdle
    /\ ProcIdle
    /\ MainIdle
    /\ WinIdle
    /\ pp_in \in PostInputs
    /\ pp_out = [done |-> FALSE, raised |-> FALSE, data |-> EmptyDict]

PostProcess ==
    /\ ~pp_out.done
    /\ pp_out' = [done |-> TRUE, raised |-> _post_process(pp_in).raised,
                  data |-> _post_process(pp_in).data]
    /\ UNCHANGED pp_in
    /\ UNCHANGED <<fillVars, mergeVars, procVars, mainVars, winVars>>

PostNext == PostProcess

SpecPost == PostInit /\ [][PostNext]_vars

-----------------------------------------------------------------------------
(* Properties of fill_fields (specification Spec) *)

Invocations(backend) ==
    {k \in 1..Len(trace) : trace[k].ev = "invoke" /\ trace[k].backend = backend}

Returned(backend) ==
    {k \in 1..Len(trace) : trace[k].ev = "return" /\ trace[k].backend = backend}

PrimaryAnswer == complete_json(inp.primary_client, inp.primary_answer)
FallbackAnswer == complete_json(inp.fallback_client, inp.fallback_answer)

\* The primary call was made and its try block completed.
PrimarySucceeded ==
    /\ ~NoWork(inp)
    /\ inp.primary_client = "available"
    /\ ~TryBlock(inp, "primary", PrimaryAnswer, <<>>).raised

\* The primary result has a post-processed confidence.
PrimaryPostProcessed ==
    /\ PrimarySucceeded
    /\ PyTruthy(PrimaryAnswer.parsed)
    /\ ~PostProcessParsed(PrimaryAnswer.parsed).raised

PrimaryResult == PostProcessParsed(PrimaryAnswer.parsed).parsed
PrimaryConfidence == Get(PrimaryResult.obj, "confidence").n

\* The fallback backend answers with something _post_process accepts.
FallbackUsable ==
    /\ inp.fallback_client = "available"
    /\ ~FallbackAnswer.raises
    /\ ~PostProcessParsed(FallbackAnswer.parsed).raised

FallbackResult == PostProcessParsed(FallbackAnswer.parsed).parsed
FallbackConfidence == Get(FallbackResult.obj, "confidence").n

\* The returned function agrees with the step-by-step call.
StepsAgreeWithFunction ==
    pc = "done" => ret = fill_fields(inp, <<>>).ret /\ entries = fill_fields(inp, <<>>).entries

\* C1: when the primary call succeeds with a post-processed confidence
\* strictly below escalate_confidence and a fallback client is available,
\* the fallback is invoked with the same system and user prompt, and
\* fill_fields returns the post-processed fallback result if its confidence
\* is strictly greater than the primary's, and the primary's otherwise.
C1_EscalationKeepsHigherConfidence ==
    (/\ pc = "done"
     /\ PrimaryPostProcessed
     /\ PrimaryConfidence < inp.escalate_confidence
     /\ inp.fallback_client = "available")
    => /\ \E k \in Invocations("fallback") : \E j \in Invocations("primary") :
              /\ trace[k].system = trace[j].system
              /\ trace[k].user = trace[j].user
       /\ ret = Result(IF FallbackUsable /\ FallbackConfidence > PrimaryConfidence
                       THEN FallbackResult ELSE PrimaryResult)

\* C2: when the primary result's post-processed confidence is at or above
\* escalate_confidence, the fallback backend is never invoked, whatever the
\* fallback client is, and fill_fields returns the primary's result.
C2_NoEscalationAtOrAboveThreshold ==
    (PrimaryPostProcessed /\ PrimaryConfidence >= inp.escalate_confidence)
    => /\ Invocations("fallback") = {}
       /\ pc # "fallback_call"
       /\ pc = "done" => ret = Result(PrimaryResult)

C2_Witness ==
    /\ pc = "done"
    /\ PrimaryPostProcessed
    /\ PrimaryConfidence = inp.escalate_confidence
    /\ inp.fallback_client = "available"
    /\ ret.kind = "result"

\* C3: when the primary backend invocation fails and a fallback backend is
\* available, fill_fields goes on to the fallback backend and returns its
\* result if it is usable; it returns empty only when no fallback exists or
\* every attempted backend failed.
C3_PrimaryFailureFallsBack ==
    (/\ pc = "done"
     /\ ~NoWork(inp)
     /\ inp.primary_client = "available"
     /\ inp.primary_answer.raises
     /\ inp.fallback_client = "available")
    => /\ Invocations("fallback") # {}
       /\ FallbackUsable => ret = Result(FallbackResult)
       /\ ret = Empty => ~FallbackUsable

\* C4: whatever the primary and the fallback backend answer (raising, a
\* non-object, an object with missing, null or wrongly typed confidence,
\* evidence_quotes or *_provided entries), fill_fields returns a result or
\* empty and never raises to its caller.
C4_NeverRaises == pc = "done" => ret.kind \in {"result", "empty"}

\* C5: with no missing fields, no snippets, or a primary client that is
\* absent or not available, fill_fields returns empty at once: no backend is
\* invoked and the cost sink gains no entry.
C5_EarlyReturn ==
    (NoWork(inp) \/ inp.primary_client \in {"none", "unavailable"})
    => /\ trace = <<>>
       /\ entries = <<>>
       /\ pc \in {"entry", "done"}
       /\ pc = "done" => ret = Empty

C5_Witness ==
    /\ pc = "done"
    /\ ~NoWork(inp)
    /\ inp.primary_client = "unavailable"
    /\ inp.fallback_client = "available"
    /\ inp.cost_logger = "present"
    /\ ret = Empty

\* C7: within one call the backend calls are sequential and never retried:
\* each backend is invoked at most once, an invocation is followed by its
\* own return before anything else is invoked, and the fallback is invoked
\* only after the primary call has returned.
C7_SequentialNoRetry ==
    /\ Cardinality(Invocations("primary")) <= 1
    /\ Cardinality(Invocations("fallback")) <= 1
    /\ \A k \in 1..Len(trace) :
          trace[k].ev = "invoke" /\ k < Len(trace)
          => trace[k + 1].ev = "return" /\ trace[k + 1].backend = trace[k].backend
    /\ \A k \in Invocations("fallback") : \E j \in Returned("primary") : j < k
    /\ (pc = "primary_call") = (Invocations("primary") # {} /\ Returned("primary") = {})
    /\ (pc = "fallback_call") = (Invocations("fallback") # {} /\ Returned("fallback") = {})

C7_Witness ==
    /\ pc = "done"
    /\ Len(trace) = 4
    /\ FallbackAnswer.raises

\* C8: cost tracking never affects the outcome: for the same backend
\* answers fill_fields returns what it returns without a cost sink, and
\* every backend call that returns with usage accounting adds exactly one
\* entry to a sink that is present.
UsageCalls ==
    {b \in {"primary", "fallback"} :
        /\ Returned(b) # {}
        /\ ~(IF b = "primary" THEN PrimaryAnswer ELSE FallbackAnswer).raises
        /\ DOMAIN (IF b = "primary" THEN PrimaryAnswer ELSE FallbackAnswer).usage # {}}

C8_CostSinkNeverAffectsOutcome ==
    pc = "done"
    => /\ ret = fill_fields([inp EXCEPT !.cost_logger = "none"], <<>>).ret
       /\ inp.cost_logger = "present" => Len(entries) = Cardinality(UsageCalls)

-----------------------------------------------------------------------------
(* Properties of _post_process (specification SpecPost) *)

Clamp01(k) == IF k < 0 THEN 0 ELSE IF k > 100 THEN 100 ELSE k

\* C6: after _post_process the confidence is exactly 0.3 whenever the
\* cleaned evidence_quotes list is empty, whatever was reported; otherwise a
\* reported number is kept, clamped into [0,1]; in every case the confidence
\* lies in [0,1].
C6_ConfidenceFloor ==
    (pp_out.done /\ ~pp_out.raised)
    => LET evidence == pp_out.data["evidence_quotes"].items
           conf == pp_out.data["confidence"]
           reported == Get(pp_in, "confidence")
       IN  /\ conf.t = "num"
           /\ 0 <= conf.n /\ conf.n <= 100
           /\ evidence = <<>> => conf.n = 30
           /\ (evidence # <<>> /\ reported.t = "num") => conf.n = Clamp01(reported.n)

C6_Witness ==
    /\ pp_out.done
    /\ ~pp_out.raised
    /\ Get(pp_in, "confidence") = JNum(20)
    /\ Get(pp_in, "evidence_quotes") = JList(<<JNum(7)>>)
    /\ pp_out.data["confidence"] = JNum(30)

-----------------------------------------------------------------------------
(* util_text.py: clean_text.  A document text is written word by word: each *)
(* word, punctuation mark and whitespace character is one element.          *)

\* _WHITESPACE_RE.sub(" ", text): every run of whitespace becomes one space.
\* An element is kept when it starts a run or is not whitespace.
CollapseWs(cs) ==
    LET keep == {i \in 1..Len(cs) :
                    cs[i] \notin WHITESPACE \/ i = 1 \/ cs[i - 1] \notin WHITESPACE}
        nth(n) == CHOOSE i \in keep : Cardinality({j \in keep : j <= i}) = n
    IN  [n \in 1..Cardinality(keep) |->
            IF cs[nth(n)] \in WHITESPACE THEN " " ELSE cs[nth(n)]]

\* clean_text: nbsp becomes a space, whitespace runs collapse to one space,
\* and the ends are stripped.
clean_text(cs) ==
    Strip(CollapseWs([i \in 1..Len(cs) |-> IF cs[i] = "nbsp" THEN " " ELSE cs[i]]))

-----------------------------------------------------------------------------
(* extract_rules.py: the patterns.  A pattern made of alternatives of       *)
(* literal words is the set of its word sequences; consecutive words are    *)
(* separated by \s+ and the match ignores case.                             *)

RECURSIVE SkipWs(_, _)
SkipWs(text, i) ==
    IF i <= Len(text) /\ text[i] \in WHITESPACE THEN SkipWs(text, i + 1) ELSE i

\* The index of the last element of a match of phrase that starts at i, or 0.
RECURSIVE MatchEnd(_, _, _)
MatchEnd(text, i, phrase) ==
    IF i > Len(text) \/ LowerChar(text[i]) # phrase[1] THEN 0
    ELSE IF Len(phrase) = 1 THEN i
    ELSE LET j == SkipWs(text, i + 1)
         IN  IF j = i + 1 THEN 0 ELSE MatchEnd(text, j, Tail(phrase))

\* The ends of the matches of the phrases that start at i.
Matches(text, i, phrases) == {MatchEnd(text, i, ph) : ph \in phrases} \ {0}

Least(S) == CHOOSE x \in S : \A o \in S : x <= o

NoMatch == <<0, 0>>

\* pattern.search(text): the leftmost match, as <<first, last>>, or NoMatch.
Search(text, phrases) ==
    LET starts == {i \in 1..Len(text) : Matches(text, i, phrases) # {}}
    IN  IF starts = {} THEN NoMatch
        ELSE <<Least(starts), Least(Matches(text, Least(starts), phrases))>>

\* match.group(0)
Group0(text, m) == SubSeq(text, m[1], m[2])

TRIMESTER_PATTERNS == <<
    [phrases |-> {<<"1st", "trimester">>, <<"first", "trimester">>}, value |-> <<"1st">>],
    [phrases |-> {<<"2nd", "trimester">>, <<"second", "trimester">>}, value |-> <<"2nd">>],
    [phrases |-> {<<"3rd", "trimester">>, <<"third", "trimester">>}, value |-> <<"3rd">>],
    [phrases |-> {<<"term">>}, value |-> <<"term">>],
    [phrases |-> {<<"preterm">>, <<"premature">>}, value |-> <<"premature">>] >>

\* The numbers the texts hold, with their count of digits.
NUMBERS == {"12", "39", "3500"}
NumDigits(w) == IF w = "3500" THEN 4 ELSE 2

\* GA_DELIVERY_RE and GA_COLLECTION_RE: "gestational age", then within the
\* sentence one of the anchor words, then with no digit in between a number
\* of two or three digits followed by weeks or wk.  The character limits of
\* the gaps (60 and 20) are not counted: the texts drawn stay within them.
\* The result is <<first, last, index of the number>> or <<0, 0, 0>>.
GaMatches(text, i, anchors) ==
    LET e == MatchEnd(text, i, <<"gestational", "age">>)
        number(j) == Least({x \in (j + 1)..Len(text) : text[x] \in NUMBERS} \cup {Len(text) + 1})
        unit(j) == SkipWs(text, number(j) + 1)
    IN  IF e = 0 THEN {}
        ELSE {<<i, unit(j), number(j)>> : j \in
                {j \in (e + 1)..Len(text) :
                    /\ LowerChar(text[j]) \in anchors
                    /\ \A x \in (e + 1)..(j - 1) : text[x] \notin {".", "\n"}
                    /\ number(j) <= Len(text)
                    /\ NumDigits(text[number(j)]) \in {2, 3}
                    /\ unit(j) <= Len(text)
                    /\ LowerChar(text[unit(j)]) \in {"weeks", "wk"}}}

\* The leftmost match; the first gap is greedy, so of the anchor words that
\* allow a match the last one is taken.
GaSearch(text, anchors) ==
    LET starts == {i \in 1..Len(text) : GaMatches(text, i, anchors) # {}}
        ms == GaMatches(text, Least(starts), anchors)
    IN  IF starts = {} THEN <<0, 0, 0>>
        ELSE CHOOSE m \in ms : \A o \in ms : m[3] >= o[3]

\* BIRTHWEIGHT_RE: birth weight, birth-weight or birthweight, then with no
\* digit in between a number of three or four digits followed by g.  (The
\* kg alternative needs a decimal, which the texts drawn do not hold.)
BirthweightMatches(text, i) ==
    LET e == IF LowerChar(text[i]) \in {"birthweight", "birth-weight"} THEN i
             ELSE IF /\ LowerChar(text[i]) = "birth"
                     /\ i + 2 <= Len(text) /\ text[i + 1] = " "
                     /\ LowerChar(text[i + 2]) = "weight" THEN i + 2
             ELSE 0
        number == Least({x \in (e + 1)..Len(text) : text[x] \in NUMBERS} \cup {Len(text) + 1})
        unit == SkipWs(text, number + 1)
    IN  IF /\ e > 0
           /\ number <= Len(text)
           /\ NumDigits(text[number]) \in {3, 4}
           /\ unit <= Len(text)
           /\ LowerChar(text[unit]) = "g"
        THEN {unit} ELSE {}

BirthweightSearch(text) ==
    LET starts == {i \in 1..Len(text) : BirthweightMatches(text, i) # {}}
    IN  IF starts = {} THEN NoMatch
        ELSE <<Least(starts), Least(BirthweightMatches(text, Least(starts)))>>

PRESENCE_PATTERNS == <<
    [field |-> "sex_of_offspring_provided", phrases |-> {<<"sex">>}],
    [field |-> "parity_provided", phrases |-> {<<"parity">>}],
    [field |-> "gravidity_provided", phrases |-> {<<"gravidity">>, <<"gravida">>}],
    [field |-> "num_offspring_per_pregnancy_provided",
     phrases |-> {<<"singleton">>, <<"twin">>, <<"triplet">>, <<"multiple">>}],
    [field |-> "race_ethnicity_provided",
     phrases |-> {<<"race">>, <<"ethnicity">>, <<"self-reported">>}],
    [field |-> "genetic_ancestry_or_strain_provided", phrases |-> {<<"ancestry">>, <<"strain">>}],
    [field |-> "maternal_height_provided", phrases |-> {<<"maternal", "height">>}],
    [field |-> "maternal_prepreg_weight_provided",
     phrases |-> {<<"pre-pregnancy", "weight">>, <<"prepregnancy", "weight">>,
                  <<"maternal", "weight">>}],
    [field |-> "paternal_height_provided", phrases |-> {<<"paternal", "height">>}],
    [field |-> "paternal_weight_provided", phrases |-> {<<"paternal", "weight">>}],
    [field |-> "maternal_age_at_collection_provided", phrases |-> {<<"maternal", "age">>}],
    [field |-> "paternal_age_at_collection_provided", phrases |-> {<<"paternal", "age">>}],
    [field |-> "mode_of_delivery_provided",
     phrases |-> {<<"cesarean">>, <<"caesarean">>, <<"c-section">>, <<"vaginal">>}] >>

OFFSPRING_KEYWORDS == {"singleton", "twin", "triplet", "multiple", "fetuses"}
RACE_KEYWORDS == {"race", "ethnicity", "self-reported", "hispanic", "white", "black", "asian"}
ANCESTRY_KEYWORDS == {"ancestry", "strain", "c57", "european", "african", "admixed"}

\* any(kw in lowered for kw in keywords)
AnyKeyword(text, keywords) == \E i \in 1..Len(text) : LowerChar(text[i]) \in keywords

\* The complication names in sorted() order, each with its pattern.
PREGNANCY_COMPLICATION_KEYWORDS == <<
    [name |-> "chorioamnionitis", phrases |-> {<<"chorioamnionitis">>}],
    [name |-> "gestational diabetes", phrases |-> {<<"gestational", "diabetes">>}],
    [name |-> "hypertension",
     phrases |-> {<<"gestational", "hypertension">>, <<"pregnancy-induced", "hypertension">>}],
    [name |-> "placenta previa", phrases |-> {<<"placenta", "previa">>}],
    [name |-> "placental abruption", phrases |-> {<<"placental", "abruption">>}],
    [name |-> "preeclampsia", phrases |-> {<<"preeclampsia">>, <<"pre-eclampsia">>}],
    [name |-> "preterm birth", phrases |-> {<<"preterm", "birth">>, <<"ptb">>}] >>

FETAL_COMPLICATION_KEYWORDS == <<
    [name |-> "congenital anomaly",
     phrases |-> {<<"congenital", "anomaly">>, <<"congenital", "anomalies">>}],
    [name |-> "fetal distress", phrases |-> {<<"fetal", "distress">>}],
    [name |-> "iugr",
     phrases |-> {<<"iugr">>, <<"intrauterine", "growth", "restriction">>}],
    [name |-> "nicu", phrases |-> {<<"nicu">>}],
    [name |-> "sga", phrases |-> {<<"small", "for", "gestational", "age">>, <<"sga">>}] >>

\* The names whose pattern is found in the text.
Found(text, table) ==
    {table[i].name : i \in {x \in 1..Len(table) : Search(text, table[x].phrases) # NoMatch}}

\* sorted(names), for names of the table.
Sorted(names, table) ==
    LET kept == SelectSeq(table, LAMBDA e : e.name \in names)
    IN  [i \in 1..Len(kept) |-> kept[i].name]

\* sep.join(parts), each part one element.
RECURSIVE Join(_, _)
Join(sep, parts) ==
    IF parts = <<>> THEN <<>>
    ELSE IF Len(parts) = 1 THEN <<parts[1]>>
    ELSE <<parts[1]>> \o sep \o Join(sep, Tail(parts))

\* SITE_RE: one of the site phrases, whitespace, then everything up to the
\* next full stop, semicolon or newline.  <<first, last, first of group 2>>.
SITE_PHRASES == {<<"collected", "at">>, <<"recruited", "from">>, <<"enrolled", "at">>,
                 <<"delivered", "at">>, <<"performed", "at">>, <<"obtained", "from">>}

\* The last element of the run, starting at i, of elements other than the
\* full stop, the semicolon and the newline.
CaptureEnd(text, i) ==
    LET stops == {x \in i..Len(text) : text[x] \in {".", ";", "\n"}}
    IN  IF stops = {} THEN Len(text)
        ELSE (CHOOSE x \in stops : \A o \in stops : x <= o) - 1

SiteMatches(text, i) ==
    {<<i, CaptureEnd(text, SkipWs(text, e + 1)), SkipWs(text, e + 1)>> : e \in
        {e \in Matches(text, i, SITE_PHRASES) :
            /\ e + 1 <= Len(text) /\ text[e + 1] \in WHITESPACE
            /\ SkipWs(text, e + 1) <= Len(text)
            /\ text[SkipWs(text, e + 1)] \notin {".", ";", "\n"}}}

SiteSearch(text) ==
    LET starts == {i \in 1..Len(text) : SiteMatches(text, i) # {}}
    IN  IF starts = {} THEN <<0, 0, 0>>
        ELSE CHOOSE m \in SiteMatches(text, Least(starts)) : TRUE

COUNTRY_LIST == {
    <<"united", " ", "states">>, <<"usa">>, <<"china">>, <<"canada">>,
    <<"united", " ", "kingdom">>, <<"australia">>, <<"germany">>, <<"france">>,
    <<"spain">>, <<"italy">>, <<"brazil">>, <<"india">>, <<"japan">>, <<"mexico">>,
    <<"sweden">>, <<"norway">>, <<"denmark">>, <<"finland">>, <<"netherlands">>,
    <<"russia">>, <<"korea">>, <<"hong", " ", "kong">>, <<"taiwan">>, <<"singapore">>,
    <<"thailand">>, <<"argentina">>, <<"south", " ", "africa">> }

\* location.split(","), each part stripped.
RECURSIVE SplitComma(_)
SplitComma(cs) ==
    LET commas == {i \in 1..Len(cs) : cs[i] = ","}
    IN  IF commas = {} THEN <<Strip(cs)>>
        ELSE LET c == CHOOSE i \in commas : \A o \in commas : i <= o
             IN  <<Strip(SubSeq(cs, 1, c - 1))>> \o SplitComma(SubSeq(cs, c + 1, Len(cs)))

\* The first token, scanning from the last one backwards, whose lower-case
\* form is a known country; <<>> when there is none.
RECURSIVE CountryToken(_)
CountryToken(tokens) ==
    IF tokens = <<>> THEN <<>>
    ELSE IF Lower(tokens[Len(tokens)]) \in COUNTRY_LIST THEN tokens[Len(tokens)]
    ELSE CountryToken(SubSeq(tokens, 1, Len(tokens) - 1))

-----------------------------------------------------------------------------
(* extract_rules.py: RuleHit, _add_hit and apply_rules.  hits is the dict   *)
(* of the code, kept as the sequence of its values in insertion order.      *)

\* RuleHit.confidence defaults to 1.0
RULE_CONFIDENCE == 100

RuleHit(field, provided, value, evidence, source, locator) ==
    [field |-> field, provided |-> provided, value |-> value, evidence |-> evidence,
     confidence |-> RULE_CONFIDENCE, source |-> source, locator |-> locator]

HitFields(hits) == {hits[i].field : i \in 1..Len(hits)}

\* A variant of _add_hit in which the last writer wins.
AddHitOverwriting(hits, key, value, evidence, source, locator) ==
    SelectSeq(hits, LAMBDA h : h.field # key)
    \o <<RuleHit(key, TRUE, JStr(value), clean_text(evidence), source, locator)>>

\* _add_hit: the first writer wins.
_add_hit(hits, key, value, evidence, source, locator) ==
    IF key \in HitFields(hits) THEN hits
    ELSE Append(hits, RuleHit(key, TRUE, JStr(value), clean_text(evidence), source, locator))

\* A variant of TrimesterStep in which a later snippet's trimester replaces
\* the one found before.
TrimesterStepLastWins(hits, snip) ==
    LET hit == {i \in 1..Len(TRIMESTER_PATTERNS) :
                    Search(snip.text, TRIMESTER_PATTERNS[i].phrases) # NoMatch}
        first == CHOOSE i \in hit : \A o \in hit : i <= o
    IN  IF hit = {} THEN hits
        ELSE AddHitOverwriting(hits, "pregnancy_trimester", TRIMESTER_PATTERNS[first].value,
                      Group0(snip.text, Search(snip.text, TRIMESTER_PATTERNS[first].phrases)),
                      snip.source, snip.locator)

\* Lines 133-138: the first trimester pattern, in table order, that matches.
TrimesterStep(hits, snip) ==
    LET hit == {i \in 1..Len(TRIMESTER_PATTERNS) :
                    Search(snip.text, TRIMESTER_PATTERNS[i].phrases) # NoMatch}
        first == CHOOSE i \in hit : \A o \in hit : i <= o
    IN  IF "pregnancy_trimester" \in HitFields(hits) \/ hit = {} THEN hits
        ELSE _add_hit(hits, "pregnancy_trimester", TRIMESTER_PATTERNS[first].value,
                      Group0(snip.text, Search(snip.text, TRIMESTER_PATTERNS[first].phrases)),
                      snip.source, snip.locator)

\* Lines 140-151: a gestational age sets the weeks field and its flag.
GaStep(hits, snip, anchors, weeksField, providedField) ==
    LET m == GaSearch(snip.text, anchors)
        ev == SubSeq(snip.text, m[1], m[2])
    IN  IF weeksField \in HitFields(hits) \/ m[1] = 0 THEN hits
        ELSE _add_hit(_add_hit(hits, weeksField, <<snip.text[m[3]]>>, ev,
                               snip.source, snip.locator),
                      providedField, yes, ev, snip.source, snip.locator)

\* Lines 153-156
BirthweightStep(hits, snip) ==
    LET m == BirthweightSearch(snip.text)
    IN  IF "birthweight_provided" \in HitFields(hits) \/ m = NoMatch THEN hits
        ELSE _add_hit(hits, "birthweight_provided", yes, Group0(snip.text, m),
                      snip.source, snip.locator)

\* Lines 158-162: every presence pattern, in table order, whose field has no
\* hit yet and which matches adds its hit.  The fields of the table are the
\* keys of a dict, so no pattern's hit decides another pattern's guard.
PresenceStep(hits, snip) ==
    LET fire == SelectSeq(PRESENCE_PATTERNS,
                          LAMBDA p : /\ p.field \notin HitFields(hits)
                                     /\ Search(snip.text, p.phrases) # NoMatch)
    IN  hits \o [n \in 1..Len(fire) |->
                   RuleHit(fire[n].field, TRUE, JStr(yes),
                           clean_text(Group0(snip.text, Search(snip.text, fire[n].phrases))),
                           snip.source, snip.locator)]

\* Lines 164-172: a keyword anywhere in the lowered text, with the whole
\* text as evidence.
KeywordStep(hits, snip, field, keywords) ==
    IF field \in HitFields(hits) \/ ~AnyKeyword(snip.text, keywords) THEN hits
    ELSE _add_hit(hits, field, yes, snip.text, snip.source, snip.locator)

\* A variant of SiteStep in which the country is looked for in every snippet
\* the site pattern matches in, as long as no country has been found.
SiteStepCountryApart(hits, snip) ==
    LET m == SiteSearch(snip.text)
        location == clean_text(SubSeq(snip.text, m[3], m[2]))
        ev == SubSeq(snip.text, m[1], m[2])
        country == CountryToken(SplitComma(location))
        h1 == _add_hit(hits, "hospital_center", location, ev, snip.source, snip.locator)
    IN  IF m[1] = 0 THEN hits
        ELSE IF country = <<>> THEN h1
        ELSE _add_hit(h1, "country_of_collection", country, ev, snip.source, snip.locator)

\* A variant of SiteStep that looks for the country in the last part only.
SiteStepTailOnly(hits, snip) ==
    LET m == SiteSearch(snip.text)
        location == clean_text(SubSeq(snip.text, m[3], m[2]))
        ev == SubSeq(snip.text, m[1], m[2])
        parts == SplitComma(location)
        h1 == _add_hit(hits, "hospital_center", location, ev, snip.source, snip.locator)
    IN  IF "hospital_center" \in HitFields(hits) \/ m[1] = 0 THEN hits
        ELSE IF Lower(parts[Len(parts)]) \notin COUNTRY_LIST THEN h1
        ELSE _add_hit(h1, "country_of_collection", parts[Len(parts)], ev,
                      snip.source, snip.locator)

\* Lines 183-193: the site, and the country among its comma-separated parts.
SiteStep(hits, snip) ==
    LET m == SiteSearch(snip.text)
        location == clean_text(SubSeq(snip.text, m[3], m[2]))
        ev == SubSeq(snip.text, m[1], m[2])
        country == CountryToken(SplitComma(location))
        h1 == _add_hit(hits, "hospital_center", location, ev, snip.source, snip.locator)
    IN  IF "hospital_center" \in HitFields(hits) \/ m[1] = 0 THEN hits
        ELSE IF country = <<>> THEN h1
        ELSE _add_hit(h1, "country_of_collection", country, ev, snip.source, snip.locator)

\* A variant of ScanSnippet in which the complications are first-match: the
\* names of a later snippet are passed over once a snippet has given some.
ScanSnippetFirstMatch(st, snip) ==
    LET h1 == TrimesterStep(st.hits, snip)
        h2 == GaStep(h1, snip, {"delivery", "birth"},
                     "ga_at_delivery_weeks", "ga_at_delivery_provided")
        h3 == GaStep(h2, snip, {"collection", "sampling"},
                     "ga_at_collection_weeks", "ga_at_collection_provided")
        h4 == BirthweightStep(h3, snip)
        h5 == PresenceStep(h4, snip)
        h6 == KeywordStep(h5, snip, "num_offspring_per_pregnancy_provided", OFFSPRING_KEYWORDS)
        h7 == KeywordStep(h6, snip, "race_ethnicity_provided", RACE_KEYWORDS)
        h8 == KeywordStep(h7, snip, "genetic_ancestry_or_strain_provided", ANCESTRY_KEYWORDS)
    IN  [hits |-> SiteStep(h8, snip),
         pregnancy |-> IF st.pregnancy # {} THEN st.pregnancy
                       ELSE Found(snip.text, PREGNANCY_COMPLICATION_KEYWORDS),
         fetal |-> IF st.fetal # {} THEN st.fetal
                   ELSE Found(snip.text, FETAL_COMPLICATION_KEYWORDS)]

\* Lines 129-193: one turn of the loop over the snippets.
ScanSnippet(st, snip) ==
    LET h1 == TrimesterStep(st.hits, snip)
        h2 == GaStep(h1, snip, {"delivery", "birth"},
                     "ga_at_delivery_weeks", "ga_at_delivery_provided")
        h3 == GaStep(h2, snip, {"collection", "sampling"},
                     "ga_at_collection_weeks", "ga_at_collection_provided")
        h4 == BirthweightStep(h3, snip)
        h5 == PresenceStep(h4, snip)
        h6 == KeywordStep(h5, snip, "num_offspring_per_pregnancy_provided", OFFSPRING_KEYWORDS)
        h7 == KeywordStep(h6, snip, "race_ethnicity_provided", RACE_KEYWORDS)
        h8 == KeywordStep(h7, snip, "genetic_ancestry_or_strain_provided", ANCESTRY_KEYWORDS)
    IN  [hits |-> SiteStep(h8, snip),
         pregnancy |-> st.pregnancy \cup Found(snip.text, PREGNANCY_COMPLICATION_KEYWORDS),
         fetal |-> st.fetal \cup Found(snip.text, FETAL_COMPLICATION_KEYWORDS)]

RECURSIVE ScanAll(_, _)
ScanAll(st, snips) ==
    IF snips = <<>> THEN st
    ELSE ScanAll(ScanSnippet(st, Head(snips)), Tail(snips))

\* Lines 195-204: the aggregate hits.
Aggregate(st) ==
    LET pnames == Sorted(st.pregnancy, PREGNANCY_COMPLICATION_KEYWORDS)
        fnames == Sorted(st.fetal, FETAL_COMPLICATION_KEYWORDS)
        h1 == IF st.pregnancy # {} /\ "pregnancy_complications_list" \notin HitFields(st.hits)
              THEN _add_hit(
                       _add_hit(st.hits, "pregnancy_complications_list",
                                Join(<<",", " ">>, pnames), Join(<<";", " ">>, pnames),
                                <<"rule">>, <<"aggregate">>),
                       "samples_from_pregnancy_complications_collected", yes,
                       Join(<<";", " ">>, pnames), <<"rule">>, <<"aggregate">>)
              ELSE st.hits
        h2 == IF st.fetal # {}
              THEN _add_hit(h1, "fetal_complications", Join(<<",", " ">>, fnames),
                            Join(<<";", " ">>, fnames), <<"rule">>, <<"aggregate">>)
              ELSE h1
    IN  IF st.fetal # {}
        THEN _add_hit(h2, "fetal_complications_listed", yes, Join(<<";", " ">>, fnames),
                      <<"rule">>, <<"aggregate">>)
        ELSE h2

\* apply_rules: list(hits.values())
apply_rules(snips) ==
    Aggregate(ScanAll([hits |-> <<>>, pregnancy |-> {}, fetal |-> {}], snips))

-----------------------------------------------------------------------------
(* export_clinical.py: merge_clinical.  A column of the row is named by the *)
(* field it renders (CLINICAL_COLUMN_MAP is one to one); field_data is the  *)
(* dict of the code, kept as the sequence of its items in insertion order.  *)

\* The keys of CLINICAL_COLUMN_MAP, in the order of the dict.
CLINICAL_COLUMN_MAP == <<
    "pregnancy_trimester", "birthweight_provided", "ga_at_delivery_provided",
    "ga_at_delivery_weeks", "ga_at_collection_provided", "ga_at_collection_weeks",
    "sex_of_offspring_provided", "parity_provided", "gravidity_provided",
    "num_offspring_per_pregnancy_provided", "race_ethnicity_provided",
    "genetic_ancestry_or_strain_provided", "maternal_height_provided",
    "maternal_prepreg_weight_provided", "paternal_height_provided",
    "paternal_weight_provided", "maternal_age_at_collection_provided",
    "paternal_age_at_collection_provided",
    "samples_from_pregnancy_complications_collected", "mode_of_delivery_provided",
    "pregnancy_complications_list", "fetal_complications_listed",
    "fetal_complications", "hospital_center", "country_of_collection" >>

ColumnFields == {CLINICAL_COLUMN_MAP[i] : i \in 1..Len(CLINICAL_COLUMN_MAP)}

YES_NO_FIELDS == {
    "birthweight_provided", "ga_at_delivery_provided", "ga_at_collection_provided",
    "sex_of_offspring_provided", "parity_provided", "gravidity_provided",
    "num_offspring_per_pregnancy_provided", "race_ethnicity_provided",
    "genetic_ancestry_or_strain_provided", "maternal_height_provided",
    "maternal_prepreg_weight_provided", "paternal_height_provided",
    "paternal_weight_provided", "maternal_age_at_collection_provided",
    "paternal_age_at_collection_provided",
    "samples_from_pregnancy_complications_collected", "mode_of_delivery_provided",
    "fetal_complications_listed" }

EVIDENCE_COLUMN == "Evidence (clinical)"
SOURCE_COLUMN == "Source (clinical)"
CONFIDENCE_COLUMN == "Confidence (clinical)"

Yes == <<"Y", "e", "s">>
No == <<"N", "o">>

\* A variant of _normalise_yes_no that takes every truthy value for a yes.
_normalise_yes_noTruthy(value) == IF Truthy(value) THEN Yes ELSE No

\* _normalise_yes_no: "Yes" for a str that strips and lowers to "yes".
_normalise_yes_no(value) ==
    IF ~Truthy(value) THEN No
    ELSE IF value.t = "str" /\ Lower(Strip(value.s)) = yes THEN Yes
    ELSE No

\* sep.join(strs), each of strs a str.
RECURSIVE JoinStrs(_, _)
JoinStrs(sep, strs) ==
    IF strs = <<>> THEN <<>>
    ELSE IF Len(strs) = 1 THEN strs[1]
    ELSE strs[1] \o sep \o JoinStrs(sep, Tail(strs))

\* field in field_data, and field_data.get(field).
FdHas(fd, field) == \E i \in 1..Len(fd) : fd[i].field = field
FdGet(fd, field) == fd[CHOOSE i \in 1..Len(fd) : fd[i].field = field]

\* A variant of HitSource that tags every rule hit as rule.
HitSourceAlwaysRule(hit) == <<"rule">>

\* Line 90: hit.source or "rule"
HitSource(hit) == IF hit.source # <<>> THEN hit.source ELSE <<"rule">>

\* Lines 87-93: the info a rule hit is recorded as.
HitInfo(hit) ==
    [field |-> hit.field,
     value |-> IF hit.value # JNull THEN hit.value
               ELSE IF hit.provided THEN JStr(yes) ELSE JNull,
     evidence |-> hit.evidence,
     source |-> HitSource(hit),
     locator |-> hit.locator,
     confidence |-> hit.confidence]

\* Lines 86-93: field_data[hit.field] = {...} for every hit in turn: a key
\* stands where it was first inserted and holds what was last assigned.
SeedFromHits(hits) ==
    LET firsts == {i \in 1..Len(hits) : \A j \in 1..(i - 1) : hits[j].field # hits[i].field}
        nth(n) == CHOOSE i \in firsts : Cardinality({j \in firsts : j <= i}) = n
        last(f) == CHOOSE i \in 1..Len(hits) :
                       /\ hits[i].field = f
                       /\ \A j \in (i + 1)..Len(hits) : hits[j].field # f
    IN  [n \in 1..Cardinality(firsts) |-> HitInfo(hits[last(hits[nth(n)].field)])]

\* Lines 95-99: llm_values, llm_confidence and llm_evidence.  llm_result is
\* None, {} or what fill_fields returned, whose values went through
\* _post_process: the confidence is a float and the quotes are strs.
LlmValues(llm) == IF llm.kind = "result" THEN llm.values ELSE EmptyDict
LlmConfidence(values) ==
    IF DOMAIN values # {} /\ Truthy(Get(values, "confidence"))
    THEN FloatOf(Get(values, "confidence")).val ELSE 0
LlmEvidence(values) ==
    IF DOMAIN values # {} /\ Truthy(Get(values, "evidence_quotes"))
    THEN [i \in 1..Len(Get(values, "evidence_quotes").items) |->
              Get(values, "evidence_quotes").items[i].s]
    ELSE <<>>

NullWord == <<"n", "u", "l", "l">>

\* A variant of LlmInfo that records an LLM value the way a rule hit is
\* recorded: tagged rule, with the confidence of a rule.
LlmInfoAsRule(field, values) ==
    [field |-> field,
     value |-> Get(values, field),
     evidence |-> JoinStrs(<<";", " ">>, LlmEvidence(values)),
     source |-> <<"rule">>,
     locator |-> <<"llm">>,
     confidence |-> RULE_CONFIDENCE]

\* Lines 106-112: the info an LLM value is recorded as.
LlmInfo(field, values) ==
    [field |-> field,
     value |-> Get(values, field),
     evidence |-> IF LlmEvidence(values) # <<>>
                  THEN JoinStrs(<<";", " ">>, LlmEvidence(values))
                  ELSE <<"LLM", " ", "inference">>,
     source |-> <<"llm">>,
     locator |-> <<"llm">>,
     confidence |-> LlmConfidence(values)]

\* A variant of LlmSkips that lets the LLM loop write every field.
LlmSkipsNothing(fd, field) == FALSE

\* Lines 101-102: the LLM loop passes over a field that is in field_data.
LlmSkips(fd, field) == FdHas(fd, field)

\* A variant of LlmFill that adds a record for every value the LLM result
\* carries, whether or not the field has one.
LlmFillAppending(fd, values) ==
    LET carried == SelectSeq(CLINICAL_COLUMN_MAP,
                             LAMBDA f : /\ DOMAIN values # {}
                                        /\ Get(values, f) # JNull
                                        /\ Get(values, f) # JStr(NullWord))
    IN  fd \o [n \in 1..Len(carried) |-> LlmInfo(carried[n], values)]

\* Lines 100-113: the LLM loop.  The fields it goes through are the keys of a
\* dict, so what it writes for one field decides nothing for another; a
\* written key stands where it was first inserted.
LlmFill(fd, values) ==
    LET writes(f) == /\ DOMAIN values # {}
                     /\ ~LlmSkips(fd, f)
                     /\ Get(values, f) # JNull
                     /\ Get(values, f) # JStr(NullWord)
        added == SelectSeq(CLINICAL_COLUMN_MAP, LAMBDA f : writes(f) /\ ~FdHas(fd, f))
    IN  [i \in 1..Len(fd) |->
            IF fd[i].field \in ColumnFields /\ writes(fd[i].field)
            THEN LlmInfo(fd[i].field, values) ELSE fd[i]]
        \o [n \in 1..Len(added) |-> LlmInfo(added[n], values)]

\* sorted() of a set of strs.  The list values drawn hold the words below,
\* one word a str, and the words are here in the order of their code points.
SortedStrs(strs) ==
    LET kept == SelectSeq(<<"hellp", "iugr", "sga">>, LAMBDA w : <<w>> \in strs)
    IN  [i \in 1..Len(kept) |-> <<kept[i]>>]

LIST_FIELDS == {"pregnancy_complications_list", "fetal_complications"}
CRITICAL_FIELDS == {"pregnancy_trimester", "hospital_center"}

\* Lines 117-127: what the row holds for a field.
RenderValue(fd, field) ==
    IF field \in YES_NO_FIELDS
    THEN JStr(IF FdHas(fd, field) THEN _normalise_yes_no(FdGet(fd, field).value) ELSE No)
    ELSE LET value == IF FdHas(fd, field) THEN FdGet(fd, field).value ELSE JStr(<<>>)
             joined == IF field \in LIST_FIELDS /\ value.t = "list"
                       THEN JStr(JoinStrs(<<",", " ">>,
                                SortedStrs({value.items[i].s : i \in 1..Len(value.items)})))
                       ELSE value
         IN  IF Truthy(joined) THEN joined ELSE JStr(<<>>)

\* A variant of MissingProblems that reports every field rendered empty.
MissingProblemsEveryField(fd) ==
    LET missing == SelectSeq(CLINICAL_COLUMN_MAP, LAMBDA f : RenderValue(fd, f) = JStr(<<>>))
    IN  [i \in 1..Len(missing) |-> <<"Missing", missing[i]>>]

\* Lines 126-127: the problems the rendering appends, in the order of the map.
MissingProblems(fd) ==
    LET missing == SelectSeq(CLINICAL_COLUMN_MAP,
                             LAMBDA f : f \in CRITICAL_FIELDS /\ RenderValue(fd, f) = JStr(<<>>))
    IN  [i \in 1..Len(missing) |-> <<"Missing", missing[i]>>]

\* unique_preserve_order: an empty value is passed over; a value is kept
\* when no earlier non-empty value lowers and strips to the same key.
unique_preserve_order(values) ==
    LET key(v) == Strip(Lower(v))
        keep == {i \in 1..Len(values) :
                    /\ values[i] # <<>>
                    /\ \A j \in 1..(i - 1) :
                          values[j] = <<>> \/ key(values[j]) # key(values[i])}
        nth(n) == CHOOSE i \in keep : Cardinality({j \in keep : j <= i}) = n
    IN  [n \in 1..Cardinality(keep) |-> values[nth(n)]]

\* A variant of Evidences that leaves out the raw quotes of the LLM result.
EvidencesOfFields(fd, values) ==
    LET own == SelectSeq(fd, LAMBDA info : info.evidence # <<>>)
    IN  [i \in 1..Len(own) |-> own[i].evidence]

\* Lines 129-141: the evidences, sources and confidences collected.
Evidences(fd, values) ==
    LET own == SelectSeq(fd, LAMBDA info : info.evidence # <<>>)
    IN  [i \in 1..Len(own) |-> own[i].evidence] \o LlmEvidence(values)
Sources(fd) ==
    LET own == SelectSeq(fd, LAMBDA info : info.source # <<>>)
    IN  [i \in 1..Len(own) |-> own[i].source]
\* A variant of MaxConfidence that takes the least confidence.
MaxConfidenceLeast(fd) ==
    CHOOSE c \in {fd[i].confidence : i \in 1..Len(fd)} :
        \A i \in 1..Len(fd) : c <= fd[i].confidence

MaxConfidence(fd) ==
    CHOOSE c \in {fd[i].confidence : i \in 1..Len(fd)} :
        \A i \in 1..Len(fd) : fd[i].confidence <= c

\* A variant of merge_clinical that adds the evidences it collected to the
\* evidence the row came with.
merge_clinicalAccumulating(row0, hits, llm, snips, problems) ==
    LET fd == LlmFill(SeedFromHits(hits), LlmValues(llm))
        columns == ColumnFields \cup {EVIDENCE_COLUMN, SOURCE_COLUMN, CONFIDENCE_COLUMN}
        before == IF EVIDENCE_COLUMN \in DOMAIN row0 THEN <<row0[EVIDENCE_COLUMN].s>> ELSE <<>>
    IN  [row |-> [c \in (DOMAIN row0) \cup columns |->
                     CASE c \in ColumnFields -> RenderValue(fd, c)
                       [] c = EVIDENCE_COLUMN ->
                            JStr(JoinStrs(<<";", " ">>,
                                 before \o Evidences(fd, LlmValues(llm))))
                       [] c = SOURCE_COLUMN ->
                            JStr(JoinStrs(<<";", " ">>, unique_preserve_order(Sources(fd))))
                       [] c = CONFIDENCE_COLUMN ->
                            IF fd # <<>> THEN JNum(MaxConfidence(fd)) ELSE JStr(<<>>)
                       [] OTHER -> row0[c]],
         field_data |-> fd,
         clinical_problems |-> problems \o MissingProblems(fd)]

\* merge_clinical: the row, the info map and the problems list it leaves.
merge_clinical(row0, hits, llm, snips, problems) ==
    LET fd == LlmFill(SeedFromHits(hits), LlmValues(llm))
        columns == ColumnFields \cup {EVIDENCE_COLUMN, SOURCE_COLUMN, CONFIDENCE_COLUMN}
    IN  [row |-> [c \in (DOMAIN row0) \cup columns |->
                     CASE c \in ColumnFields -> RenderValue(fd, c)
                       [] c = EVIDENCE_COLUMN ->
                            JStr(JoinStrs(<<";", " ">>,
                                 unique_preserve_order(Evidences(fd, LlmValues(llm)))))
                       [] c = SOURCE_COLUMN ->
                            JStr(JoinStrs(<<";", " ">>, unique_preserve_order(Sources(fd))))
                       [] c = CONFIDENCE_COLUMN ->
                            IF fd # <<>> THEN JNum(MaxConfidence(fd)) ELSE JStr(<<>>)
                       [] OTHER -> row0[c]],
         field_data |-> fd,
         clinical_problems |-> problems \o MissingProblems(fd)]

-----------------------------------------------------------------------------
(* util_text.py and paper_sections.py: sliding_window and find_snippets.    *)
(* A paper text is written word by word, so an offset and a window size     *)
(* count words, spaces and punctuation marks, and a keyword is the sequence *)
(* of its words and spaces.                                                 *)

\* text[:n] of Python: the first n elements, or all but the last -n.
SliceTo(seq, n) ==
    SubSeq(seq, 1, IF n >= 0 THEN Min(n, Len(seq)) ELSE Max(Len(seq) + n, 0))

\* truncate
truncate(text, limit) ==
    IF Len(text) <= limit THEN text
    ELSE SliceTo(text, limit - 3) \o <<".", ".", ".">>

\* sliding_window, for a step above 0: the windows as [idx, text], idx
\* counted from 0.  The loop leaves after the first window whose end reaches
\* the end of the text.
sliding_window(text, window, step) ==
    IF window <= 0 \/ Len(text) <= window THEN <<[idx |-> 0, text |-> text]>>
    ELSE LET count == Least({k \in 1..Len(text) : (k - 1) * step + window >= Len(text)})
         IN  [k \in 1..count |->
                 [idx |-> (k - 1) * step,
                  text |-> SubSeq(text, (k - 1) * step + 1,
                                  Min((k - 1) * step + window, Len(text)))]]

\* FIELD_GROUP_KEYWORDS, in the order of the dict.
FIELD_GROUP_KEYWORDS == <<
    [group |-> "ga_trimester",
     keywords |-> {<<"gestational", " ", "age">>, <<"weeks">>, <<"trimester">>,
                   <<"delivery">>, <<"collection">>, <<"sampling">>, <<"birth">>,
                   <<"term">>, <<"preterm">>}],
    [group |-> "birthweight",
     keywords |-> {<<"birth", " ", "weight">>, <<"birthweight">>, <<"bw">>,
                   <<"grams">>, <<"kg">>}],
    [group |-> "parity",
     keywords |-> {<<"parity">>, <<"nulliparous">>, <<"multiparous">>, <<"gravidity">>,
                   <<"gravida">>, <<"g0p0">>}],
    [group |-> "offspring",
     keywords |-> {<<"singleton">>, <<"twin">>, <<"multiple">>, <<"fetuses">>,
                   <<"offspring">>}],
    [group |-> "sex", keywords |-> {<<"sex">>, <<"male">>, <<"female">>, <<"fetus">>}],
    [group |-> "race",
     keywords |-> {<<"race">>, <<"ethnicity">>, <<"self-reported">>, <<"hispanic">>,
                   <<"white">>, <<"black">>, <<"asian">>}],
    [group |-> "ancestry",
     keywords |-> {<<"ancestry">>, <<"strain">>, <<"c57">>, <<"european">>,
                   <<"african">>, <<"admixed">>}],
    [group |-> "maternal",
     keywords |-> {<<"maternal", " ", "age">>, <<"maternal", " ", "height">>,
                   <<"maternal", " ", "weight">>, <<"pre-pregnancy">>}],
    [group |-> "paternal",
     keywords |-> {<<"paternal", " ", "age">>, <<"paternal", " ", "height">>,
                   <<"paternal", " ", "weight">>}],
    [group |-> "mode_delivery",
     keywords |-> {<<"cesarean">>, <<"caesarean">>, <<"c-section">>, <<"vaginal">>}],
    [group |-> "pregnancy_complications",
     keywords |-> {<<"preeclampsia">>, <<"gestational", " ", "diabetes">>,
                   <<"hypertension">>, <<"preterm">>, <<"placenta", " ", "previa">>,
                   <<"placental", " ", "abruption">>, <<"chorioamnionitis">>}],
    [group |-> "fetal_complications",
     keywords |-> {<<"fetal", " ", "distress">>, <<"anomaly">>, <<"nicu">>, <<"iugr">>,
                   <<"sga">>, <<"growth", " ", "restriction">>}],
    [group |-> "site",
     keywords |-> {<<"hospital">>, <<"center">>, <<"university">>,
                   <<"collected", " ", "at">>, <<"recruited">>, <<"city">>,
                   <<"country">>}] >>

\* _score_window: the occurrences of every keyword in the lowered window,
\* added up.  No keyword overlaps itself, so str.count counts its starts.
_score_window(window_text, keywords) ==
    LET text_low == Lower(window_text)
    IN  Cardinality({p \in keywords \X (1..Len(text_low)) :
                        /\ p[2] + Len(p[1]) - 1 <= Len(text_low)
                        /\ SubSeq(text_low, p[2], p[2] + Len(p[1]) - 1) = p[1]})

\* _build_heading_lookup: clean_text has left the text on one line, so
\* _HEADING_RE can match at offset 0 only, and only the whole text: after
\* an optional number with . ) or - and a space, a text that begins with a
\* word and holds words, digits, spaces and , - / ( ) to its end.  The words
\* drawn have four letters and more.
_build_heading_lookup(text) ==
    LET other == WHITESPACE \cup {".", ";", ":", ",", "-", "/", "(", ")"} \cup NUMBERS
        numbered == /\ Len(text) > 3
                    /\ text[1] \in NUMBERS
                    /\ text[2] \in {".", ")", "-"}
                    /\ text[3] = " "
        title == IF numbered THEN SubSeq(text, 4, Len(text)) ELSE text
    IN  IF /\ title # <<>>
           /\ title[1] \notin other
           /\ \A i \in 1..Len(title) : title[i] \notin {".", ";", ":", "\t", "\n", "nbsp"}
        THEN <<[pos |-> 0, title |-> clean_text(title)]>>
        ELSE <<>>

\* _nearest_heading: the title of the last heading at or before idx.
_nearest_heading(headings, idx) ==
    LET before == {k \in 1..Len(headings) :
                      \A j \in 1..k : headings[j].pos <= idx}
    IN  IF before = {} THEN <<>>
        ELSE headings[CHOOSE k \in before : \A o \in before : o <= k].title

\* f"offset:{idx}"
Locator(idx) ==
    <<<<"offset:0", "offset:1", "offset:2", "offset:3", "offset:4", "offset:5",
        "offset:6", "offset:7", "offset:8", "offset:9", "offset:10", "offset:11",
        "offset:12">>[idx + 1]>>

\* A variant of Ranked that leaves the scored windows in document order.
RankedUnsorted(windows, keywords) ==
    LET scored == SelectSeq(windows, LAMBDA w : _score_window(w.text, keywords) > 0)
    IN  scored

\* Lines 109-115: the windows that score above 0, sorted by score, the
\* highest first; list.sort is stable, so windows of one score stay in the
\* order of their offsets.
Ranked(windows, keywords) ==
    LET scored == SelectSeq(windows, LAMBDA w : _score_window(w.text, keywords) > 0)
        score(i) == _score_window(scored[i].text, keywords)
        rank(i) == 1 + Cardinality({j \in 1..Len(scored) : score(j) > score(i)})
                     + Cardinality({j \in 1..(i - 1) : score(j) = score(i)})
    IN  [r \in 1..Len(scored) |-> scored[CHOOSE i \in 1..Len(scored) : rank(i) = r]]

\* find_snippets: for every field group in turn, the first
\* max_snippets_per_field of its ranked windows, each as a Snippet.
find_snippets(gse, paper_text, source, config) ==
    LET text == clean_text(paper_text)
        headings == _build_heading_lookup(text)
        windows == sliding_window(text, config.window_chars, config.window_step)
        taken == [g \in 1..Len(FIELD_GROUP_KEYWORDS) |->
                     SliceTo(Ranked(windows, FIELD_GROUP_KEYWORDS[g].keywords),
                             config.max_snippets_per_field)]
        places == {p \in (1..Len(FIELD_GROUP_KEYWORDS)) \X (1..Len(windows)) :
                      p[2] <= Len(taken[p[1]])}
        before(p) == {q \in places : q[1] < p[1] \/ (q[1] = p[1] /\ q[2] < p[2])}
        place(n) == CHOOSE p \in places : Cardinality(before(p)) = n - 1
    IN  IF paper_text = <<>> \/ text = <<>> THEN <<>>
        ELSE [n \in 1..Cardinality(places) |->
                 LET w == taken[place(n)[1]][place(n)[2]]
                 IN  [gse |-> gse,
                      field_group |-> FIELD_GROUP_KEYWORDS[place(n)[1]].group,
                      source |-> source,
                      section_title |-> _nearest_heading(headings, w.idx),
                      text |-> truncate(Strip(w.text), config.window_chars),
                      locator |-> Locator(w.idx)]]

-----------------------------------------------------------------------------
(* process_one, from the snippets to the merged row (run_pipeline.py lines  *)
(* 121-135): apply_rules, then merge_clinical with what fill_fields gave.   *)

\* The most snippets a document has.
MaxSnippets == 2

\* The source kinds get_paper_assets reports, and the default of line 121.
SOURCE_KINDS == {"html", "pdf_text", "pmc_xml"}

\* The snippet texts drawn.
TextChoices == {
    <<"Term", ";", " ", "the", " ", "1st", " ", "trimester", ".">>,
    <<"third", "\n", "trimester", ";", " ", "Parity", ".">>,
    <<"Gestational", " ", "age", " ", "at", " ", "delivery", " ", "39", " ", "weeks", ".">>,
    <<"preeclampsia", " ", "and", " ", "IUGR", ".">>,
    <<"Collected", " ", "at", " ", "Mercy", " ", "hospital", ",", " ", "China", ".">>,
    <<"Collected", " ", "at", " ", "Mercy", " ", "hospital", ".", " ",
      "sga", " ", "and", " ", "gestational", " ", "diabetes", ".">>,
    <<"Enrolled", " ", "at", " ", "Lima", ",", " ", "JAPAN", ",", " ", "Ward", " ", "5", ".">>,
    <<"no", " ", "data", ".">> }

\* find_snippets gives every snippet of a document the document's source.
SnippetsOf(kind, texts) ==
    LET locators == <<"offset:0", "offset:400", "offset:800", "offset:1200">>
    IN  [k \in 1..Len(texts) |->
            [source |-> <<kind>>, locator |-> <<locators[k]>>, text |-> texts[k]]]

DocumentChoices ==
    {SnippetsOf(kind, texts) :
        kind \in SOURCE_KINDS,
        texts \in UNION {[1..n -> TextChoices] : n \in 0..MaxSnippets}}

\* What the LLM answered, before _post_process.
LlmAnswerA ==
    [k \in {"pregnancy_trimester", "hospital_center", "country_of_collection",
            "parity_provided", "fetal_complications", "fetal_complications_listed",
            "confidence", "evidence_quotes"} |->
        CASE k = "pregnancy_trimester" -> JStr(<<"3rd">>)
          [] k = "hospital_center" -> JStr(<<"General", " ", "hospital">>)
          [] k = "country_of_collection" -> JStr(<<"Peru">>)
          [] k = "parity_provided" -> JStr(<<" ", "Y", "E", "S">>)
          [] k = "fetal_complications" -> JList(<<JStr(<<"sga">>), JStr(<<"hellp">>)>>)
          [] k = "fetal_complications_listed" -> JStr(<<" ", "Y", "e", "s">>)
          [] k = "confidence" -> JNum(90)
          [] k = "evidence_quotes" -> JList(<<JStr(Quote), JStr(<<"r">>)>>)]
LlmAnswerB ==
    [k \in {"pregnancy_trimester", "parity_provided", "ga_at_delivery_weeks",
            "samples_from_pregnancy_complications_collected",
            "fetal_complications_listed", "confidence"} |->
        CASE k = "pregnancy_trimester" -> JStr(NullWord)
          [] k = "parity_provided" -> JStr(no)
          [] k = "samples_from_pregnancy_complications_collected" -> JBool(TRUE)
          [] k = "fetal_complications_listed" -> JStr(<<"maybe">>)
          [] k = "ga_at_delivery_weeks" -> JNum(40)
          [] k = "confidence" -> JNum(40)]

NoResult == [kind |-> "none", values |-> EmptyDict]

\* llm_result: None when fill_fields was not called, else what it returned;
\* it returns {} when there are no snippets.
LlmResultChoices(snips) ==
    {NoResult, Empty}
    \cup (IF snips = <<>> THEN {}
          ELSE {Result(PObj(_post_process(a).data)) : a \in {LlmAnswerA, LlmAnswerB}})

\* to_series_row: of the series columns, the id and the problems derived
\* from the metadata, here none.
SeriesRow ==
    [c \in {"GEO Series ID (GSE___)", "Problems"} |->
        IF c = "Problems" THEN JStr(<<>>) ELSE JStr(<<"GSE1">>)]

MergeInit ==
    /\ FillIdle
    /\ PostIdle
    /\ ProcIdle
    /\ MainIdle
    /\ WinIdle
    /\ mpc = "snippets"
    /\ snippets \in DocumentChoices
    /\ llm_result \in LlmResultChoices(snippets)
    /\ rule_hits = <<>>
    /\ row = SeriesRow
    /\ field_data = <<>>
    /\ clinical_problems = <<>>

\* Line 122
ApplyRules ==
    /\ mpc = "snippets"
    /\ rule_hits' = apply_rules(snippets)
    /\ mpc' = "rules"
    /\ UNCHANGED <<snippets, llm_result, row, field_data, clinical_problems>>
    /\ UNCHANGED <<fillVars, postVars, procVars, mainVars, winVars>>

\* Line 135
MergeClinical ==
    /\ mpc = "rules"
    /\ LET m == merge_clinical(row, rule_hits, llm_result, snippets, clinical_problems)
       IN  /\ row' = m.row
           /\ field_data' = m.field_data
           /\ clinical_problems' = m.clinical_problems
    /\ mpc' = "merged"
    /\ UNCHANGED <<snippets, llm_result, rule_hits>>
    /\ UNCHANGED <<fillVars, postVars, procVars, mainVars, winVars>>

\* merge_clinical called once more with the same hits and LLM result, on the
\* row the first call left or on a fresh row.
MergeAgain ==
    /\ mpc = "merged"
    /\ \E row0 \in {row, SeriesRow} :
          LET m == merge_clinical(row0, rule_hits, llm_result, snippets, clinical_problems)
          IN  /\ row' = m.row
              /\ field_data' = m.field_data
              /\ clinical_problems' = m.clinical_problems
    /\ mpc' = "remerged"
    /\ UNCHANGED <<snippets, llm_result, rule_hits>>
    /\ UNCHANGED <<fillVars, postVars, procVars, mainVars, winVars>>

MergeNext ==
    \/ ApplyRules
    \/ MergeClinical
    \/ MergeAgain

SpecMerge == MergeInit /\ [][MergeNext]_vars

-----------------------------------------------------------------------------
(* find_snippets on its own (specification SpecSnippets): a paper text and  *)
(* a config are drawn, and find_snippets is applied to them.                *)

\* The longest paper text drawn.
MaxTextLen == 4

\* The paper texts drawn: up to MaxTextLen of these words and marks.
PaperTexts ==
    UNION {[1..n -> {"weeks", "Parity", "\n", "."}] : n \in 0..MaxTextLen}

\* The configs drawn: windows and steps smaller than the texts, as the
\* defaults (1200, 400, 3) are smaller than a paper.
ConfigChoices ==
    [window_chars : {2, 3}, window_step : {1, 2}, max_snippets_per_field : {1, 2}]

SnippetsInit ==
    /\ FillIdle
    /\ PostIdle
    /\ MergeIdle
    /\ MainIdle
    /\ WinIdle
    /\ ppc = "find_snippets"
    /\ args = [enable_papers |-> TRUE, enable_llm |-> FALSE]
    /\ assets \in [text : PaperTexts, source : {<<"pmc_xml">>}]
    /\ cfg \in ConfigChoices
    /\ problem_list = <<>>
    /\ outcome = [kind |-> "none"]
    /\ calls = <<>>

\* run_pipeline.py line 121
FindSnippets ==
    /\ ppc = "find_snippets"
    /\ snippets' = find_snippets(<<"GSE1">>, assets.text, assets.source, cfg)
    /\ ppc' = "found"
    /\ UNCHANGED <<mpc, llm_result, rule_hits, row, field_data, clinical_problems>>
    /\ UNCHANGED <<args, calls, assets, cfg, problem_list, outcome>>
    /\ UNCHANGED <<fillVars, postVars, mainVars, winVars>>

SnippetsNext == FindSnippets

SpecSnippets == SnippetsInit /\ [][SnippetsNext]_vars

-----------------------------------------------------------------------------
(* The loop of sliding_window, step by step (specification SpecWindow):     *)
(* util_text.py lines 23-37, as the for loop of find_snippets (line 110 of  *)
(* paper_sections.py) drives the generator.  A text is written character by *)
(* character.                                                               *)

\* The texts drawn: up to MaxTextLen characters.
WindowTexts == UNION {[1..n -> {"a", "b"}] : n \in 0..MaxTextLen}

\* The window_chars and window_step drawn: PaperConfig takes any int.
WindowConfigs ==
    [window_chars : -1..3, window_step : -1..3, max_snippets_per_field : {3}]

\* text[a:b] of Python: a negative bound counts from the end, and both are
\* brought into 0..len(text).
Slice(text, a, b) ==
    LET norm(x) == IF x < 0 THEN Max(x + Len(text), 0) ELSE Min(x, Len(text))
    IN  SubSeq(text, norm(a) + 1, norm(b))

\* The caller's list of the pairs yielded, kept up to one pair more than the
\* longest text has characters: a loop that goes on yields the same pairs.
Yielded(ws, i, slice_text) ==
    IF Len(ws) <= MaxTextLen THEN Append(ws, [idx |-> i, text |-> slice_text]) ELSE ws

\* A variant of Breaks that leaves the loop only when the window's end lies
\* beyond the end of the text.
BreaksBeyond(i, window, length) == i + window > length

\* Line 35: the loop is left after a window whose end reaches the end.
Breaks(i, window, length) == i + window >= length

\* Line 37: idx += step.  Below -(len(text) + window) every slice is empty
\* and no test of the loop changes, so idx is kept from there on.
Advanced(i, window, step, length) == Max(i + step, 0 - (length + window))

WindowInit ==
    /\ FillIdle
    /\ PostIdle
    /\ MergeIdle
    /\ MainIdle
    /\ WinIdle
    /\ ppc = "sliding_window"
    /\ args = [enable_papers |-> TRUE, enable_llm |-> FALSE]
    /\ assets \in [text : WindowTexts, source : {<<"pmc_xml">>}]
    /\ cfg \in WindowConfigs
    /\ problem_list = <<>>
    /\ outcome = [kind |-> "none"]
    /\ calls = <<>>

\* Lines 24-30: the whole text is the one window.
YieldWhole ==
    /\ ppc = "sliding_window"
    /\ cfg.window_chars <= 0 \/ Len(assets.text) <= cfg.window_chars
    /\ yielded' = Yielded(yielded, 0, assets.text)
    /\ ppc' = "exhausted"
    /\ UNCHANGED <<win_idx, args, calls, assets, cfg, problem_list, outcome>>
    /\ UNCHANGED <<fillVars, postVars, mergeVars, mainVars>>

\* Line 31
EnterLoop ==
    /\ ppc = "sliding_window"
    /\ ~(cfg.window_chars <= 0 \/ Len(assets.text) <= cfg.window_chars)
    /\ win_idx' = 0
    /\ ppc' = "while"
    /\ UNCHANGED <<yielded, args, calls, assets, cfg, problem_list, outcome>>
    /\ UNCHANGED <<fillVars, postVars, mergeVars, mainVars>>

\* Lines 32-34: a slice is yielded.
YieldSlice ==
    /\ ppc = "while"
    /\ win_idx < Len(assets.text)
    /\ yielded' = Yielded(yielded, win_idx, Slice(assets.text, win_idx, win_idx + cfg.window_chars))
    /\ ppc' = "yielded"
    /\ UNCHANGED <<win_idx, args, calls, assets, cfg, problem_list, outcome>>
    /\ UNCHANGED <<fillVars, postVars, mergeVars, mainVars>>

\* Line 32: the while condition fails.
LoopExit ==
    /\ ppc = "while"
    /\ ~(win_idx < Len(assets.text))
    /\ ppc' = "exhausted"
    /\ UNCHANGED <<winVars, args, calls, assets, cfg, problem_list, outcome>>
    /\ UNCHANGED <<fillVars, postVars, mergeVars, mainVars>>

\* Lines 35-36
Break ==
    /\ ppc = "yielded"
    /\ Breaks(win_idx, cfg.window_chars, Len(assets.text))
    /\ ppc' = "exhausted"
    /\ UNCHANGED <<winVars, args, calls, assets, cfg, problem_list, outcome>>
    /\ UNCHANGED <<fillVars, postVars, mergeVars, mainVars>>

\* Line 37
Step ==
    /\ ppc = "yielded"
    /\ ~Breaks(win_idx, cfg.window_chars, Len(assets.text))
    /\ win_idx' = Advanced(win_idx, cfg.window_chars, cfg.window_step, Len(assets.text))
    /\ ppc' = "while"
    /\ UNCHANGED <<yielded, args, calls, assets, cfg, problem_list, outcome>>
    /\ UNCHANGED <<fillVars, postVars, mergeVars, mainVars>>

WindowNext ==
    \/ YieldWhole
    \/ EnterLoop
    \/ YieldSlice
    \/ LoopExit
    \/ Break
    \/ Step

SpecWindow == WindowInit /\ [][WindowNext]_vars

\* The generator is driven by a for loop that asks for the next pair until
\* the generator is exhausted, so a step that can be taken is taken.
SpecWindowFair == SpecWindow /\ WF_vars(WindowNext)

-----------------------------------------------------------------------------
(* process_one (specification SpecProcess): run_pipeline.py lines 79-161.   *)
(* The metadata of the one series GSE1 is fixed; what is drawn is whether   *)
(* papers and the LLM are enabled, what the outside world answers (the      *)
(* download, the paper lookup, the paper assets, the LLM backends, the      *)
(* artifact files), and with it which step raises.                          *)

\* The config main builds: the defaults 1200, 400 and 3, counted in words at
\* a hundredth of the window and the step.
DEFAULT_CFG == [window_chars |-> 12, window_step |-> 4, max_snippets_per_field |-> 3]

\* What get_paper_assets returns: no text, or a text and its source kind.
AssetChoices ==
    {[text |-> <<>>, source |-> <<>>]}
    \cup [text : {<<"third", "\n", "trimester", ";", " ", "Parity", ".">>,
                  <<"Collected", " ", "at", " ", "Mercy", " ", "hospital", ",", " ",
                    "China", ".">>,
                  <<"no", " ", "data", ".">>},
          source : {<<"html">>, <<"pmc_xml">>}]

\* A variant of _missing_llm_fields that asks the LLM for every field.
_missing_llm_fieldsAll(rule_hits_fields) == LLM_FIELDS

\* _missing_llm_fields
_missing_llm_fields(rule_hits_fields) ==
    SelectSeq(LLM_FIELDS, LAMBDA f : f \notin rule_hits_fields)

\* Line 125: fill_fields is called.
CallsLlm == args.enable_llm /\ _missing_llm_fields(HitFields(rule_hits)) # <<>>

\* A call process_one makes, with the missing_fields handed to fill_fields.
Called(fn, missing_fields) == [fn |-> fn, missing_fields |-> missing_fields]

\* Lines 159-161: what the except clause returns for the exception exc.
ErrorOutcome(exc) ==
    [kind |-> "returned",
     row |-> [c \in {"GEO Series ID (GSE___)", "Problems"} |->
                 IF c = "Problems" THEN JStr(<<"ERROR:", exc>>) ELSE JStr(<<"GSE1">>)],
     sample_rows |-> <<>>,
     problems |-> <<<<"GSE1", <<"ERROR:", exc>>>>>>]

ProcessInit ==
    /\ FillIdle
    /\ PostIdle
    /\ MergeIdle
    /\ MainIdle
    /\ WinIdle
    /\ ppc = "start"
    /\ args \in [enable_papers : BOOLEAN, enable_llm : BOOLEAN]
    /\ assets = [text |-> <<>>, source |-> <<>>]
    /\ cfg = DEFAULT_CFG
    /\ problem_list = <<>>
    /\ outcome = [kind |-> "none"]
    /\ calls = <<>>

\* Lines 92-115: the metadata is fetched and parsed, the paper is looked up
\* (found or not), the row is made and the locals are set.
FetchAndLink ==
    /\ ppc = "start"
    /\ \E lookup_status \in {"found", "not_found"} :
          clinical_problems' =
              IF lookup_status = "not_found"
              THEN <<<<"Publication not resolved from GEO/PubMed search">>>>
              ELSE <<>>
    /\ row' = SeriesRow
    /\ snippets' = <<>>
    /\ rule_hits' = <<>>
    /\ llm_result' = NoResult
    /\ ppc' = "linked"
    /\ UNCHANGED <<mpc, field_data, args, calls, assets, cfg, problem_list, outcome>>
    /\ UNCHANGED <<fillVars, postVars, mainVars, winVars>>

\* Line 118
GetPaperAssets ==
    /\ ppc = "linked"
    /\ args.enable_papers
    /\ assets' \in AssetChoices
    /\ ppc' = "assets"
    /\ UNCHANGED <<mergeVars, args, calls, cfg, problem_list, outcome>>
    /\ UNCHANGED <<fillVars, postVars, mainVars, winVars>>

\* Lines 119-121
SnippetsOfPaper ==
    /\ ppc = "assets"
    /\ assets.text # <<>>
    /\ snippets' = find_snippets(<<"GSE1">>, assets.text,
                                 IF assets.source # <<>> THEN assets.source
                                 ELSE <<"pmc_xml">>, cfg)
    /\ ppc' = "snippets"
    /\ UNCHANGED <<mpc, llm_result, rule_hits, row, field_data, clinical_problems>>
    /\ UNCHANGED <<args, calls, assets, cfg, problem_list, outcome>>
    /\ UNCHANGED <<fillVars, postVars, mainVars, winVars>>

\* Line 122
RulesOfPaper ==
    /\ ppc = "snippets"
    /\ rule_hits' = apply_rules(snippets)
    /\ ppc' = "rules"
    /\ UNCHANGED <<mpc, snippets, llm_result, row, field_data, clinical_problems>>
    /\ UNCHANGED <<args, calls, assets, cfg, problem_list, outcome>>
    /\ UNCHANGED <<fillVars, postVars, mainVars, winVars>>

\* Lines 123-134: fill_fields is called when the LLM is enabled and a field
\* is missing, and returns; with no snippets it returns {}.
FillMissing ==
    /\ ppc = "rules"
    /\ llm_result' \in
          IF ~CallsLlm THEN {NoResult}
          ELSE LlmResultChoices(snippets) \ {NoResult}
    /\ ppc' = "filled"
    /\ calls' = IF CallsLlm
                THEN Append(calls, Called("fill_fields",
                                          _missing_llm_fields(HitFields(rule_hits))))
                ELSE calls
    /\ UNCHANGED <<mpc, snippets, rule_hits, row, field_data, clinical_problems>>
    /\ UNCHANGED <<args, assets, cfg, problem_list, outcome>>
    /\ UNCHANGED <<fillVars, postVars, mainVars, winVars>>

\* Line 135
MergePaper ==
    /\ ppc = "filled"
    /\ LET m == merge_clinical(row, rule_hits, llm_result, snippets, clinical_problems)
       IN  /\ row' = m.row
           /\ field_data' = m.field_data
           /\ clinical_problems' = m.clinical_problems
    /\ ppc' = "merged"
    /\ calls' = Append(calls, Called("merge_clinical", <<>>))
    /\ UNCHANGED <<mpc, snippets, llm_result, rule_hits>>
    /\ UNCHANGED <<args, assets, cfg, problem_list, outcome>>
    /\ UNCHANGED <<fillVars, postVars, mainVars, winVars>>

\* Lines 137-139 and 141-142: without paper text, or with papers disabled,
\* merge_clinical runs on no hits and no LLM result.
MergeWithoutPaper ==
    /\ \/ ppc = "assets" /\ assets.text = <<>>
       \/ ppc = "linked" /\ ~args.enable_papers
    /\ LET noted == IF ppc = "assets"
                    THEN Append(clinical_problems, <<"Paper assets unavailable">>)
                    ELSE clinical_problems
           m == merge_clinical(row, <<>>, NoResult, <<>>, noted)
       IN  /\ row' = m.row
           /\ field_data' = m.field_data
           /\ clinical_problems' = m.clinical_problems
    /\ ppc' = "merged"
    /\ calls' = Append(calls, Called("merge_clinical", <<>>))
    /\ UNCHANGED <<mpc, snippets, llm_result, rule_hits>>
    /\ UNCHANGED <<args, assets, cfg, problem_list, outcome>>
    /\ UNCHANGED <<fillVars, postVars, mainVars, winVars>>

\* Lines 136, 140, 143: write_artifacts
WriteArtifacts ==
    /\ ppc = "merged"
    /\ ppc' = "written"
    /\ calls' = Append(calls, Called("write_artifacts", <<>>))
    /\ UNCHANGED <<mergeVars, args, assets, cfg, problem_list, outcome>>
    /\ UNCHANGED <<fillVars, postVars, mainVars, winVars>>

\* Lines 145-158: the problems go into the row and into the list returned.
\* The series is not of the uncertain data type and names its tissue.
ReturnRow ==
    /\ ppc = "written"
    /\ LET notes == [i \in 1..Len(clinical_problems) |-> <<"GSE1", clinical_problems[i]>>]
           combined == JoinStrs(<<";", " ">>,
                                SelectSeq(<<row["Problems"].s>> \o clinical_problems,
                                          LAMBDA q : q # <<>>))
           final == IF clinical_problems # <<>>
                    THEN [row EXCEPT !["Problems"] = JStr(combined)]
                    ELSE row
       IN  /\ problem_list' = problem_list \o notes
           /\ row' = final
           /\ outcome' = [kind |-> "returned", row |-> final,
                          sample_rows |-> <<<<"GSE1", "GSM1">>>>,
                          problems |-> problem_list \o notes]
    /\ ppc' = "done"
    /\ UNCHANGED <<mpc, snippets, llm_result, rule_hits, field_data, clinical_problems>>
    /\ UNCHANGED <<args, calls, assets, cfg>>
    /\ UNCHANGED <<fillVars, postVars, mainVars, winVars>>

\* Lines 159-161: a step raises and the except clause returns.  The download
\* and the parsing of the metadata raise (lines 92-94); fill_fields raises
\* on an LLM answer _post_process cannot take (line 125); write_artifacts
\* raises when a file cannot be written.
Except ==
    /\ \/ ppc = "start"
       \/ ppc = "rules" /\ CallsLlm /\ snippets # <<>>
       \/ ppc = "merged"
    /\ outcome' = ErrorOutcome(ppc)
    /\ ppc' = "done"
    /\ calls' = CASE ppc = "rules" ->
                         Append(calls, Called("fill_fields",
                                              _missing_llm_fields(HitFields(rule_hits))))
                   [] ppc = "merged" -> Append(calls, Called("write_artifacts", <<>>))
                   [] OTHER -> calls
    /\ UNCHANGED <<mergeVars, args, assets, cfg, problem_list>>
    /\ UNCHANGED <<fillVars, postVars, mainVars, winVars>>

ProcessNext ==
    \/ FetchAndLink
    \/ GetPaperAssets
    \/ SnippetsOfPaper
    \/ RulesOfPaper
    \/ FillMissing
    \/ MergePaper
    \/ MergeWithoutPaper
    \/ WriteArtifacts
    \/ ReturnRow
    \/ Except

SpecProcess == ProcessInit /\ [][ProcessNext]_vars

-----------------------------------------------------------------------------
(* main (specification SpecMain): run_pipeline.py lines 231-281.  The pool  *)
(* runs process_one for every id on up to max_threads workers; the main     *)
(* thread takes the futures as they complete and appends what each returned *)
(* to the three sinks, each append under the sink's lock.                   *)

\* The most ids submitted, and the most workers of the pool.
MaxDocs == 3
MaxThreads == 2

\* What process_one returns for the k-th id: its row, and sample rows and
\* problems that may be none.
ResultChoices(k) ==
    [row : {<<"GSE", k>>},
     sample_list : {<<>>, <<<<"GSE", k, "GSM1">>, <<"GSE", k, "GSM2">>>>},
     problems : {<<>>, <<<<"GSE", k, "Missing">>>>}]

\* Lines 262-276: one future per id, in the order of the ids.
Submitted ==
    UNION {{fs \in [1..n -> [state : {"queued"}, yielded : {FALSE},
                            result : UNION {ResultChoices(k) : k \in 1..n}]] :
               \A k \in 1..n : fs[k].result \in ResultChoices(k)} :
           n \in 1..MaxDocs}

MainInit ==
    /\ FillIdle
    /\ PostIdle
    /\ MergeIdle
    /\ ppc = "idle"
    /\ args = [enable_papers |-> FALSE, enable_llm |-> FALSE]
    /\ assets = [text |-> <<>>, source |-> <<>>]
    /\ cfg \in {DEFAULT_CFG @@ [max_threads |-> t] : t \in 1..MaxThreads}
    /\ problem_list = <<>>
    /\ outcome = [kind |-> "none"]
    /\ calls = <<>>
    /\ futs \in Submitted
    /\ sinks = [series |-> <<>>, samples |-> <<>>, problems |-> <<>>]
    /\ locks = [series |-> "free", samples |-> "free", problems |-> "free"]
    /\ writer = [at |-> "wait", fut |-> 0, sink |-> "series"]
    /\ WinIdle

\* A variant of as_completed that yields a completed future again.
as_completedAgain(fs) == {i \in 1..Len(fs) : fs[i].state = "done"}

\* as_completed: the futures that are done and were not yielded.
as_completed(fs) == {i \in 1..Len(fs) : fs[i].state = "done" /\ ~fs[i].yielded}

\* Lines 235-259: what an append writes to a sink for a result: the row, the
\* sample rows, or the problems.
Items(result, sink) ==
    CASE sink = "series" -> <<result.row>>
      [] sink = "samples" -> result.sample_list
      [] sink = "problems" -> result.problems

\* Lines 279-281: after the append to a sink comes the append to the next,
\* and after the last the loop waits for the next future.
AfterSink(w) ==
    CASE w.sink = "series" -> [w EXCEPT !.at = "append", !.sink = "samples"]
      [] w.sink = "samples" -> [w EXCEPT !.at = "append", !.sink = "problems"]
      [] w.sink = "problems" -> [at |-> "wait", fut |-> 0, sink |-> "series"]

\* The pool starts the first queued call on a free worker.
StartWorker ==
    /\ \E i \in 1..Len(futs) :
          /\ futs[i].state = "queued"
          /\ \A j \in 1..(i - 1) : futs[j].state # "queued"
          /\ Cardinality({j \in 1..Len(futs) : futs[j].state = "running"}) < cfg.max_threads
          /\ futs' = [futs EXCEPT ![i].state = "running"]
    /\ UNCHANGED <<sinks, locks, writer>>
    /\ UNCHANGED <<fillVars, postVars, mergeVars, procVars, winVars>>

\* A worker's process_one returns.
FinishWorker ==
    /\ \E i \in 1..Len(futs) :
          /\ futs[i].state = "running"
          /\ futs' = [futs EXCEPT ![i].state = "done"]
    /\ UNCHANGED <<sinks, locks, writer>>
    /\ UNCHANGED <<fillVars, postVars, mergeVars, procVars, winVars>>

\* Lines 277-278: the loop takes a completed future and its result.
TakeCompleted ==
    /\ writer.at = "wait"
    /\ \E i \in as_completed(futs) :
          /\ futs' = [futs EXCEPT ![i].yielded = TRUE]
          /\ writer' = [at |-> "append", fut |-> i, sink |-> "series"]
    /\ UNCHANGED <<sinks, locks>>
    /\ UNCHANGED <<fillVars, postVars, mergeVars, procVars, winVars>>

\* Lines 243-244 and 253-254: append_samples and append_problems return at
\* once when there is nothing to write.
ReturnEmptyAppend ==
    /\ writer.at = "append"
    /\ writer.sink # "series"
    /\ Items(futs[writer.fut].result, writer.sink) = <<>>
    /\ writer' = AfterSink(writer)
    /\ UNCHANGED <<futs, sinks, locks>>
    /\ UNCHANGED <<fillVars, postVars, mergeVars, procVars, winVars>>

\* Lines 237, 245, 255: with <sink>_lock, entered when the lock is free.
AcquireLock ==
    /\ writer.at = "append"
    /\ writer.sink = "series" \/ Items(futs[writer.fut].result, writer.sink) # <<>>
    /\ locks[writer.sink] = "free"
    /\ locks' = [locks EXCEPT ![writer.sink] = "main"]
    /\ writer' = [writer EXCEPT !.at = "write"]
    /\ UNCHANGED <<futs, sinks>>
    /\ UNCHANGED <<fillVars, postVars, mergeVars, procVars, winVars>>

\* Lines 238-240, 246-250, 256-259: the rows are written to the file.
WriteRows ==
    /\ writer.at = "write"
    /\ sinks' = [sinks EXCEPT ![writer.sink] =
                     @ \o Items(futs[writer.fut].result, writer.sink)]
    /\ writer' = [writer EXCEPT !.at = "release"]
    /\ UNCHANGED <<futs, locks>>
    /\ UNCHANGED <<fillVars, postVars, mergeVars, procVars, winVars>>

\* The with block is left and the lock released.
ReleaseLock ==
    /\ writer.at = "release"
    /\ locks' = [locks EXCEPT ![writer.sink] = "free"]
    /\ writer' = AfterSink(writer)
    /\ UNCHANGED <<futs, sinks>>
    /\ UNCHANGED <<fillVars, postVars, mergeVars, procVars, winVars>>

\* Line 277: as_completed ends when every future was yielded.
LoopEnds ==
    /\ writer.at = "wait"
    /\ \A i \in 1..Len(futs) : futs[i].yielded
    /\ writer' = [writer EXCEPT !.at = "finished"]
    /\ UNCHANGED <<futs, sinks, locks>>
    /\ UNCHANGED <<fillVars, postVars, mergeVars, procVars, winVars>>

MainNext ==
    \/ StartWorker
    \/ FinishWorker
    \/ TakeCompleted
    \/ ReturnEmptyAppend
    \/ AcquireLock
    \/ WriteRows
    \/ ReleaseLock
    \/ LoopEnds

SpecMain == MainInit /\ [][MainNext]_vars

-----------------------------------------------------------------------------
(* The cost logger under the pool (specification SpecCost): the workers of  *)
(* main share one CostLogger (run_pipeline.py line 215), and each worker's  *)
(* fill_fields logs the usage of its backend calls (llm_fill.py 127-129 and *)
(* 139-141).  CostLogger.log (cost_logger.py 25-34) takes no lock: it       *)
(* builds the CostEntry and appends it, and list.append is one atomic step. *)

\* The workers at the start of fill_fields, one per document.
CostWorkers ==
    UNION {[1..n -> [at : {"primary"}, logged : {0}]] : n \in 2..(MaxThreads + 1)}

CostInit ==
    /\ FillIdle
    /\ PostIdle
    /\ MergeIdle
    /\ ProcIdle
    /\ futs \in CostWorkers
    /\ sinks = [series |-> <<>>, samples |-> <<>>, problems |-> <<>>]
    /\ locks = [series |-> "free", samples |-> "free", problems |-> "free"]
    /\ writer = [at |-> "idle"]
    /\ WinIdle

\* llm_fill.py 134 and 146-149: after the primary call fill_fields either
\* escalates to the fallback or returns; after the fallback it returns.
AfterCall(at, escalates) ==
    IF at \in {"primary", "log_primary"} /\ escalates THEN "fallback" ELSE "returned"

\* llm_fill.py 128 and 141: `if cost_logger and usage` calls log.
EntersLog(fs, w, usage) == usage # EmptyDict

\* complete_json returns to a worker (or raises), and with a usage the
\* worker enters CostLogger.log.
CompleteJson ==
    /\ \E w \in 1..Len(futs) :
          /\ futs[w].at \in {"primary", "fallback"}
          /\ \E raises \in BOOLEAN, usage \in {EmptyDict, UsageOk}, escalates \in BOOLEAN :
                futs' = [futs EXCEPT ![w] =
                    IF raises
                    THEN [@ EXCEPT !.at = "returned"]
                    ELSE IF EntersLog(futs, w, usage)
                    THEN [at |-> IF futs[w].at = "primary" THEN "log_primary" ELSE "log_fallback",
                          logged |-> futs[w].logged + 1]
                    ELSE [@ EXCEPT !.at = AfterCall(futs[w].at, escalates)]]
    /\ UNCHANGED <<sinks, locks, writer>>
    /\ UNCHANGED <<fillVars, postVars, mergeVars, procVars, winVars>>

\* cost_logger.py 26: the entry is appended and log returns.
LogAppends ==
    /\ \E w \in 1..Len(futs) :
          /\ futs[w].at \in {"log_primary", "log_fallback"}
          /\ \E escalates \in BOOLEAN :
                futs' = [futs EXCEPT ![w].at = AfterCall(futs[w].at, escalates)]
          /\ entries' = CostLoggerLog(entries, <<"GSE", w>>,
                                      Provider(IF futs[w].at = "log_primary"
                                               THEN "primary" ELSE "fallback"),
                                      Model(IF futs[w].at = "log_primary"
                                            THEN "primary" ELSE "fallback"),
                                      UsageOk).entries
    /\ UNCHANGED <<pc, inp, user_prompt, parsed, confidence, trace, ret>>
    /\ UNCHANGED <<sinks, locks, writer>>
    /\ UNCHANGED <<postVars, mergeVars, procVars, winVars>>

CostNext ==
    \/ CompleteJson
    \/ LogAppends

SpecCost == CostInit /\ [][CostNext]_vars

-----------------------------------------------------------------------------
(* Properties of apply_rules and merge_clinical (specification SpecMerge) *)

Merged == mpc = "merged"

\* The value the LLM result carries for a field, if it carries one.
LlmCarries(field) ==
    /\ Get(LlmValues(llm_result), field) # JNull
    /\ Get(LlmValues(llm_result), field) # JStr(NullWord)

\* The fields only the aggregation after the loop produces.
AggregateFields == {"pregnancy_complications_list",
                    "samples_from_pregnancy_complications_collected",
                    "fetal_complications", "fetal_complications_listed"}

\* C9: once merge_clinical has run, every field with a rule hit has an entry
\* in field_data whose value is the hit's value, the row renders that value
\* (as Yes or No for a yes/no field), and no entry tagged llm belongs to a
\* field that has a rule hit.
C9_RuleValuesDominate ==
    Merged =>
        /\ \A k \in 1..Len(rule_hits) :
              LET h == rule_hits[k]
              IN  /\ FdHas(field_data, h.field)
                  /\ FdGet(field_data, h.field).value = h.value
                  /\ row[h.field] = IF h.field \in YES_NO_FIELDS
                                    THEN JStr(_normalise_yes_no(h.value))
                                    ELSE h.value
        /\ \A i \in 1..Len(field_data) :
              field_data[i].source = <<"llm">> => field_data[i].field \notin HitFields(rule_hits)

\* A merged document in which the LLM result carries another value for a
\* field that has a rule hit, and fills a field that has none.
C9_Witness ==
    /\ Merged
    /\ \E k \in 1..Len(rule_hits) :
          /\ LlmCarries(rule_hits[k].field)
          /\ Get(LlmValues(llm_result), rule_hits[k].field) # rule_hits[k].value
          /\ FdGet(field_data, rule_hits[k].field).value = rule_hits[k].value
    /\ \E i \in 1..Len(field_data) : field_data[i].source = <<"llm">>

Contributing(field) ==
    IF field \in HitFields(rule_hits)
    THEN HitInfo(rule_hits[CHOOSE k \in 1..Len(rule_hits) : rule_hits[k].field = field]).value
    ELSE IF LlmCarries(field) THEN Get(LlmValues(llm_result), field)
    ELSE JNull

\* C11 as stated: once merge_clinical has run, the row holds exactly Yes or
\* exactly No for every yes/no field, and it holds Yes only when the
\* contributing value is a str equal to yes but for the case of its letters.
C11_YesOnlyForTheStringYes ==
    Merged =>
        \A f \in YES_NO_FIELDS :
            /\ row[f] \in {JStr(Yes), JStr(No)}
            /\ row[f] = JStr(Yes) <=>
                  (Contributing(f).t = "str" /\ Lower(Contributing(f).s) = yes)

\* C11 as amended: once merge_clinical has run, the row holds exactly Yes or
\* exactly No for every yes/no field, and it holds Yes exactly when the
\* contributing value is a str that, with the whitespace around it stripped,
\* equals yes but for the case of its letters; a field with no contributing
\* value, a null, a non-string or any other string gives No.
C11_YesNoTotality ==
    Merged =>
        \A f \in YES_NO_FIELDS :
            /\ row[f] \in {JStr(Yes), JStr(No)}
            /\ row[f] = JStr(Yes) <=>
                  (Contributing(f).t = "str" /\ Lower(Strip(Contributing(f).s)) = yes)

\* A merged document with a yes/no field whose LLM value is yes with
\* whitespace before it, one that has a rule hit, and one left without any
\* value.
C11_Witness ==
    /\ Merged
    /\ \E f \in YES_NO_FIELDS :
          /\ Contributing(f).t = "str"
          /\ Strip(Contributing(f).s) # Contributing(f).s
          /\ row[f] = JStr(Yes)
    /\ \E f \in YES_NO_FIELDS : f \in HitFields(rule_hits) /\ row[f] = JStr(Yes)
    /\ \E f \in YES_NO_FIELDS : Contributing(f) = JNull /\ row[f] = JStr(No)

\* The fields a hit found in a snippet can fill: every clinical field but
\* the four the aggregation fills.
SingleValuedFields == ColumnFields \ AggregateFields

C13_AtMostOnePerField ==
    /\ mpc # "snippets" =>
           \A i, j \in 1..Len(rule_hits) :
               rule_hits[i].field = rule_hits[j].field => i = j
    /\ Merged =>
           \A i, j \in 1..Len(field_data) :
               field_data[i].field = field_data[j].field => i = j

\* A merged document whose two snippets hold the same text, so that every
\* matcher matches twice, and whose LLM result carries a value for a field
\* that has a rule hit.
C13_Witness ==
    /\ Merged
    /\ Len(snippets) = 2
    /\ snippets[1].text = snippets[2].text
    /\ \E k \in 1..Len(rule_hits) : LlmCarries(rule_hits[k].field)
    /\ Len(field_data) > Len(rule_hits)

\* C14: once apply_rules has run, there is a pregnancy_complications_list
\* hit exactly when some snippet holds a pregnancy-complication keyword; its
\* value is the names found in any snippet, each once, sorted and joined
\* with ", ", and a samples_from_pregnancy_complications_collected hit with
\* value yes stands with it.  The same for fetal_complications and
\* fetal_complications_listed.
C14_ComplicationsAreAUnion ==
    mpc = "rules" =>
        LET value(f) == rule_hits[CHOOSE k \in 1..Len(rule_hits) : rule_hits[k].field = f].value
            union(table) == UNION {Found(snippets[n].text, table) : n \in 1..Len(snippets)}
            holds(list, flag, table) ==
                /\ list \in HitFields(rule_hits) <=> union(table) # {}
                /\ flag \in HitFields(rule_hits) <=> union(table) # {}
                /\ union(table) # {} =>
                      /\ value(list) = JStr(Join(<<",", " ">>, Sorted(union(table), table)))
                      /\ value(flag) = JStr(yes)
        IN  /\ holds("pregnancy_complications_list",
                     "samples_from_pregnancy_complications_collected",
                     PREGNANCY_COMPLICATION_KEYWORDS)
            /\ holds("fetal_complications", "fetal_complications_listed",
                     FETAL_COMPLICATION_KEYWORDS)

\* apply_rules has run on two snippets that hold different complications:
\* preeclampsia and IUGR in the first, SGA and gestational diabetes in the
\* second; both lists hold both names, sorted.
C14_Witness ==
    /\ mpc = "rules"
    /\ Len(snippets) = 2
    /\ Found(snippets[1].text, PREGNANCY_COMPLICATION_KEYWORDS) = {"preeclampsia"}
    /\ Found(snippets[2].text, FETAL_COMPLICATION_KEYWORDS) = {"sga"}
    /\ \E k \in 1..Len(rule_hits) :
          /\ rule_hits[k].field = "pregnancy_complications_list"
          /\ rule_hits[k].value =
                 JStr(<<"gestational diabetes", ",", " ", "preeclampsia">>)
    /\ \E k \in 1..Len(rule_hits) :
          /\ rule_hits[k].field = "fetal_complications"
          /\ rule_hits[k].value = JStr(<<"iugr", ",", " ", "sga">>)

\* C15: once merge_clinical has run, the confidence column is empty exactly
\* when no field has a record, which is when there is no rule hit and the LLM
\* result carries no value for a clinical field; otherwise it is a number,
\* the confidence of some record, and no record has a greater one.
C15_ConfidenceIsTheMaximum ==
    Merged =>
        /\ row[CONFIDENCE_COLUMN] = JStr(<<>>) <=> field_data = <<>>
        /\ field_data = <<>> <=>
              (rule_hits = <<>> /\ \A f \in ColumnFields : ~LlmCarries(f))
        /\ field_data # <<>> =>
              /\ row[CONFIDENCE_COLUMN].t = "num"
              /\ \E i \in 1..Len(field_data) :
                    field_data[i].confidence = row[CONFIDENCE_COLUMN].n
              /\ \A i \in 1..Len(field_data) :
                    field_data[i].confidence <= row[CONFIDENCE_COLUMN].n

\* A merged document with a record from a rule hit and a record from the
\* LLM whose confidence is lower; the column holds the rule's 1.0.
C15_Witness ==
    /\ Merged
    /\ \E i, j \in 1..Len(field_data) :
          /\ field_data[i].source = <<"llm">>
          /\ field_data[j].source # <<"llm">>
          /\ field_data[i].confidence < field_data[j].confidence
    /\ row[CONFIDENCE_COLUMN] = JNum(RULE_CONFIDENCE)

\* C16: a second call of merge_clinical with the same rule hits and the same
\* LLM result, on the row of the first call or on a fresh row, leaves the
\* same row and the same info map as the first call, and the rule hits and
\* the LLM result are what they were.
C16_MergeIdempotent ==
    [][MergeAgain =>
          /\ row' = row
          /\ field_data' = field_data
          /\ rule_hits' = rule_hits
          /\ llm_result' = llm_result]_vars

\* merge_clinical has run twice on a document with a record from a rule hit,
\* a record from the LLM and evidence in the row.
C16_Witness ==
    /\ mpc = "remerged"
    /\ \E i \in 1..Len(field_data) : field_data[i].source = <<"llm">>
    /\ \E i \in 1..Len(field_data) : field_data[i].source # <<"llm">>
    /\ row[EVIDENCE_COLUMN] # JStr(<<>>)

\* C17: a call of merge_clinical leaves the problems list it was given with
\* new entries after the old ones: one Missing entry for each of
\* pregnancy_trimester and hospital_center that the row renders empty, and
\* nothing else; every clinical column of the row is rendered all the same.
C17_MissingCriticalFieldsReported ==
    [][(MergeClinical \/ MergeAgain) =>
          LET old == Len(clinical_problems)
              gained == SubSeq(clinical_problems', old + 1, Len(clinical_problems'))
              times(f) == Cardinality({i \in 1..Len(gained) : gained[i] = <<"Missing", f>>})
          IN  /\ Len(clinical_problems') >= old
              /\ SubSeq(clinical_problems', 1, old) = clinical_problems
              /\ \A f \in CRITICAL_FIELDS :
                    times(f) = IF row'[f] = JStr(<<>>) THEN 1 ELSE 0
              /\ \A i \in 1..Len(gained) :
                    \E f \in CRITICAL_FIELDS : gained[i] = <<"Missing", f>>
              /\ ColumnFields \subseteq DOMAIN row']_vars

\* merge_clinical has run on a list that held an entry already; the row
\* renders the trimester, and renders the hospital and the country empty.
C17_Witness ==
    /\ mpc = "remerged"
    /\ clinical_problems = <<<<"Missing", "hospital_center">>, <<"Missing", "hospital_center">>>>
    /\ row["pregnancy_trimester"] # JStr(<<>>)
    /\ row["hospital_center"] = JStr(<<>>)
    /\ row["country_of_collection"] = JStr(<<>>)

-----------------------------------------------------------------------------
(* Properties of find_snippets (specification SpecSnippets) *)

-----------------------------------------------------------------------------
(* Properties of process_one (specification SpecProcess) *)

\* C19: process_one ends by returning a row and a problems list, whichever
\* step failed; the row holds every clinical column, Yes or No in every
\* yes/no column, and the problems returned hold every diagnostic
\* accumulated for the document.
C19_WorstCaseIsAnEmptyTable ==
    ppc = "done" =>
        /\ outcome.kind = "returned"
        /\ ColumnFields \subseteq DOMAIN outcome.row
        /\ \A f \in YES_NO_FIELDS \cap DOMAIN outcome.row :
              outcome.row[f] \in {JStr(Yes), JStr(No)}
        /\ \A i \in 1..Len(clinical_problems) :
              \E k \in 1..Len(outcome.problems) :
                  outcome.problems[k] = <<"GSE1", clinical_problems[i]>>

-----------------------------------------------------------------------------
(* Properties of main (specification SpecMain) *)

\* The rows: at every moment the series sink holds at most one row for
\* a submitted id, and when the loop has ended it holds exactly one for each;
\* the rows, sample rows and problems written are then those the calls
\* returned, whatever the order in which they completed.
OneRowPerDocument ==
    LET rows(i) == {k \in 1..Len(sinks.series) : sinks.series[k] = futs[i].result.row}
        written(sink) == {sinks[sink][k] : k \in 1..Len(sinks[sink])}
        returned(sink) ==
            UNION {{Items(futs[i].result, sink)[k] :
                       k \in 1..Len(Items(futs[i].result, sink))} : i \in 1..Len(futs)}
    IN  /\ \A i \in 1..Len(futs) : Cardinality(rows(i)) <= 1
        /\ writer.at = "finished" =>
              /\ Len(sinks.series) = Len(futs)
              /\ \A i \in 1..Len(futs) : Cardinality(rows(i)) = 1
              /\ \A sink \in {"series", "samples", "problems"} :
                    written(sink) = returned(sink)

\* The locks: a step that appends to a sink is taken with that sink's
\* lock held, the lock was taken free, and no other sink changes in the step.
AppendsUnderLock ==
    [][\A sink \in {"series", "samples", "problems"} :
          sinks'[sink] # sinks[sink] =>
              /\ locks[sink] = "main"
              /\ writer.sink = sink
              /\ \A other \in {"series", "samples", "problems"} \ {sink} :
                    sinks'[other] = sinks[other]]_vars

\* C20: under every interleaving of the workers and the loop of main, every
\* append to a sink is made with that sink's lock held, each submitted id
\* contributes exactly one row to the series sink, and what has been written
\* when the loop ends does not depend on the order of completion.
C20_LockedAppendsOneRowEach == []OneRowPerDocument /\ AppendsUnderLock

\* The loop has ended for three documents that completed in another order
\* than they were submitted: the row of the last id was written first.
C20_Witness ==
    /\ writer.at = "finished"
    /\ Len(futs) = 3
    /\ sinks.series[1] = futs[3].result.row
    /\ sinks.samples # <<>>
    /\ sinks.problems # <<>>

-----------------------------------------------------------------------------
(* Properties of the shared cost logger (specification SpecCost) *)

\* C21: no two workers are inside CostLogger.log at the same time, and when
\* every worker's fill_fields has returned the accumulator holds exactly one
\* entry for each backend call that was logged.
C21_LogIsExclusiveAndComplete ==
    /\ Cardinality({w \in 1..Len(futs) : futs[w].at \in {"log_primary", "log_fallback"}}) <= 1
    /\ (\A w \in 1..Len(futs) : futs[w].at = "returned") =>
          \A w \in 1..Len(futs) :
              Cardinality({k \in 1..Len(entries) : entries[k].gse = <<"GSE", w>>})
                  = futs[w].logged

-----------------------------------------------------------------------------
(* Properties of the LLM records of merge_clinical (specification SpecMerge) *)

\* C22: once merge_clinical has run, a field of the column map that has no
\* rule hit has a record exactly when an LLM result exists and carries for it
\* a value that is neither None nor the str "null"; the record holds that
\* value, is tagged llm, has as evidence the quotes of the result joined with
\* "; " (or "LLM inference" when it has none) and as confidence the
\* confidence of the result.
C22_LlmRecords ==
    Merged =>
        \A f \in ColumnFields \ HitFields(rule_hits) :
            LET exists == llm_result.kind = "result"
                values == llm_result.values
                present == /\ exists
                           /\ f \in DOMAIN values
                           /\ values[f].t # "null"
                           /\ ~(values[f].t = "str" /\ values[f].s = <<"n", "u", "l", "l">>)
                quotes == IF exists /\ "evidence_quotes" \in DOMAIN values
                          THEN values["evidence_quotes"].items ELSE <<>>
                joined == IF Len(quotes) = 0 THEN <<"LLM", " ", "inference">>
                          ELSE IF Len(quotes) = 1 THEN quotes[1].s
                          ELSE quotes[1].s \o <<";", " ">> \o quotes[2].s
            IN  /\ FdHas(field_data, f) <=> present
                /\ present =>
                      /\ FdGet(field_data, f).value = values[f]
                      /\ FdGet(field_data, f).source = <<"llm">>
                      /\ FdGet(field_data, f).evidence = joined
                      /\ FdGet(field_data, f).confidence = values["confidence"].n
                      /\ Len(quotes) <= 2

\* A merged document without a trimester hit whose LLM result answers "null"
\* for the trimester and a number for the gestational age, with no quotes:
\* the trimester has no record and the gestational age one with the
\* evidence "LLM inference".
C22_Witness ==
    /\ Merged
    /\ llm_result.kind = "result"
    /\ "pregnancy_trimester" \notin HitFields(rule_hits)
    /\ llm_result.values["pregnancy_trimester"] = JStr(NullWord)
    /\ ~FdHas(field_data, "pregnancy_trimester")
    /\ "ga_at_delivery_weeks" \notin HitFields(rule_hits)
    /\ FdHas(field_data, "ga_at_delivery_weeks")
    /\ FdGet(field_data, "ga_at_delivery_weeks").evidence = <<"LLM", " ", "inference">>
    /\ rule_hits # <<>>

-----------------------------------------------------------------------------
(* Properties of sliding_window (specifications SpecWindow, SpecWindowFair) *)

\* The generator is exhausted and was given a window W > 0 and a step S
\* with 0 < S <= W.
ExhaustedInRange ==
    /\ ppc = "exhausted"
    /\ cfg.window_chars > 0
    /\ 0 < cfg.window_step
    /\ cfg.window_step <= cfg.window_chars

\* C23: for W > 0 and 0 < S <= W, a text no longer than W yields the one
\* window (0, text); a longer text yields windows at the offsets 0, S, 2S,
\* ..., each the W characters from its offset (fewer only for the last), the
\* last being the first whose end reaches the end of the text, and every
\* character of the text lies in one of them.
C23_WindowsCoverTheText ==
    ExhaustedInRange =>
        LET text == assets.text
            W == cfg.window_chars
            S == cfg.window_step
            n == Len(yielded)
        IN  IF Len(text) <= W
            THEN yielded = <<[idx |-> 0, text |-> text]>>
            ELSE /\ n >= 1
                 /\ \A k \in 1..n :
                       /\ yielded[k].idx = (k - 1) * S
                       /\ Len(yielded[k].text) <= W
                       /\ k < n => Len(yielded[k].text) = W
                       /\ k < n => yielded[k].idx + W < Len(text)
                       /\ \A j \in 1..Len(yielded[k].text) :
                             yielded[k].text[j] = text[yielded[k].idx + j]
                 /\ yielded[n].idx + W >= Len(text)
                 /\ \A p \in 1..Len(text) :
                       \E k \in 1..n :
                           /\ yielded[k].idx < p
                           /\ p <= yielded[k].idx + Len(yielded[k].text)
                 /\ yielded = sliding_window(text, W, S)

\* A text longer than the window was walked with a step smaller than the
\* window: overlapping windows, the last shorter than the one before it.
C23_Witness ==
    /\ ExhaustedInRange
    /\ cfg.window_step < cfg.window_chars
    /\ Len(yielded) >= 2
    /\ Len(yielded[Len(yielded)].text) < cfg.window_chars
    /\ yielded[2].idx < yielded[1].idx + cfg.window_chars

\* C27: for every text and every window_chars and window_step, a step
\* below 1 included, the walk over the windows comes to its end: idx grows
\* with every pass of the loop, and the generator is exhausted at last.
C27_WalkTerminates ==
    /\ [][Step => win_idx' > win_idx]_vars
    /\ <>(ppc = "exhausted")

-----------------------------------------------------------------------------
(* Properties of the site rule of apply_rules (specification SpecMerge) *)

\* The snippets the site pattern matches in, and the comma-separated tokens
\* of the location captured in the first of them, the one that sets
\* hospital_center.
SiteSnippets == {n \in 1..Len(snippets) : SiteSearch(snippets[n].text)[1] # 0}
SiteTokens ==
    LET text == snippets[Least(SiteSnippets)].text
        m == SiteSearch(text)
    IN  SplitComma(clean_text(SubSeq(text, m[3], m[2])))
CountryHits == {k \in 1..Len(rule_hits) : rule_hits[k].field = "country_of_collection"}

\* C24 as stated: when the site pattern matches, apply_rules gives a country
\* hit exactly when the last comma-separated token of the location is, in
\* lower case, in the country list, and the hit's value is that token; a
\* country in another position gives no hit.
C24_CountryIsTheTailToken ==
    (mpc = "rules" /\ SiteSnippets # {}) =>
        LET tail == SiteTokens[Len(SiteTokens)]
        IN  /\ CountryHits # {} <=> Lower(tail) \in COUNTRY_LIST
            /\ \A k \in CountryHits : rule_hits[k].value = JStr(tail)

\* C24 as amended: when the site pattern matches, apply_rules gives a country
\* hit exactly when some comma-separated token of the location is, in lower
\* case, in the country list, and the hit's value is the last such token,
\* which need not be the last token of the location.
C24_CountryIsTheLastKnownToken ==
    (mpc = "rules" /\ SiteSnippets # {}) =>
        LET known == {k \in 1..Len(SiteTokens) : Lower(SiteTokens[k]) \in COUNTRY_LIST}
            last == CHOOSE k \in known : \A o \in known : o <= k
        IN  /\ CountryHits # {} <=> known # {}
            /\ \A k \in CountryHits : rule_hits[k].value = JStr(SiteTokens[last])

\* apply_rules has run on a location of three tokens of which the second,
\* in upper case, is a known country and the last is not: the country hit
\* holds the second token.
C24_Witness ==
    /\ mpc = "rules"
    /\ SiteSnippets # {}
    /\ Len(SiteTokens) = 3
    /\ SiteTokens[2] = <<"JAPAN">>
    /\ Lower(SiteTokens[3]) \notin COUNTRY_LIST
    /\ \E k \in CountryHits : rule_hits[k].value = JStr(<<"JAPAN">>)

\* C30: in what apply_rules returns, a country_of_collection hit comes with
\* a hospital_center hit that has the same evidence, source and locator; and
\* when the first snippet the site pattern matches in names no known
\* country, there is no country hit, whatever the later snippets name.
C30_CountryComesWithTheSite ==
    mpc = "rules" =>
        /\ \A k \in CountryHits :
              \E h \in 1..Len(rule_hits) :
                  /\ rule_hits[h].field = "hospital_center"
                  /\ rule_hits[h].evidence = rule_hits[k].evidence
                  /\ rule_hits[h].locator = rule_hits[k].locator
                  /\ rule_hits[h].source = rule_hits[k].source
                  /\ h < k
        /\ (/\ SiteSnippets # {}
            /\ \A t \in 1..Len(SiteTokens) : Lower(SiteTokens[t]) \notin COUNTRY_LIST)
           => CountryHits = {}

\* apply_rules has run on two snippets the site pattern matches in, the
\* first naming no country and the second naming one: hospital_center has
\* its hit from the first and there is no country hit.
C30_Witness ==
    /\ mpc = "rules"
    /\ SiteSnippets = {1, 2}
    /\ \A t \in 1..Len(SiteTokens) : Lower(SiteTokens[t]) \notin COUNTRY_LIST
    /\ CountryToken(SplitComma(clean_text(
           SubSeq(snippets[2].text, SiteSearch(snippets[2].text)[3],
                  SiteSearch(snippets[2].text)[2])))) # <<>>
    /\ \E h \in 1..Len(rule_hits) :
          /\ rule_hits[h].field = "hospital_center"
          /\ rule_hits[h].locator = snippets[1].locator
    /\ CountryHits = {}

-----------------------------------------------------------------------------
(* Properties of the section titles of find_snippets (specification         *)
(* SpecSnippets)                                                            *)

\* The lines of the paper text that are headings: a line is a heading when
\* it begins with a word and holds only words and spaces.  <<first, last>>,
\* counted from 1.
HeadingLines ==
    LET raw == assets.text
        starts == {i \in 1..Len(raw) : raw[i] # "\n" /\ (i = 1 \/ raw[i - 1] = "\n")}
        last(i) == CHOOSE e \in i..Len(raw) :
                       /\ \A x \in i..e : raw[x] # "\n"
                       /\ e = Len(raw) \/ raw[e + 1] = "\n"
    IN  {<<i, last(i)>> : i \in {i \in starts :
            /\ raw[i] \in {"weeks", "Parity"}
            /\ \A x \in i..last(i) : raw[x] \in {"weeks", "Parity", " "}}}

\* C25: for a paper text whose lines are separated by single newlines, the
\* section_title of every snippet find_snippets returns is the title of the
\* last heading line that starts at or before the snippet's offset, and it
\* is empty only when no heading line does.
C25_SectionTitleIsNearestHeading ==
    (ppc = "found" /\ Len(clean_text(assets.text)) = Len(assets.text)) =>
        \A n \in 1..Len(snippets) :
            LET offset == CHOOSE i \in 0..MaxTextLen : Locator(i) = snippets[n].locator
                before == {h \in HeadingLines : h[1] - 1 <= offset}
                nearest == CHOOSE h \in before : \A o \in before : o[1] <= h[1]
            IN  snippets[n].section_title =
                    IF before = {} THEN <<>>
                    ELSE clean_text(SubSeq(assets.text, nearest[1], nearest[2]))

-----------------------------------------------------------------------------
(* Properties of the consolidated columns of merge_clinical (specification  *)
(* SpecMerge)                                                               *)

\* The values of a list that stand in a consolidated column: the non-empty
\* ones that no earlier value equals after lower-casing and trimming, in
\* the order of the list.
FirstOccurrences(values) ==
    LET first == {i \in 1..Len(values) :
                     /\ values[i] # <<>>
                     /\ ~\E j \in 1..(i - 1) :
                            /\ values[j] # <<>>
                            /\ Strip(Lower(values[j])) = Strip(Lower(values[i]))}
    IN  [n \in 1..Cardinality(first) |->
            values[CHOOSE i \in first : Cardinality({j \in first : j < i}) = n - 1]]

\* C26: once merge_clinical has run, the evidence column is the evidence
\* strings of the records of field_data, in their order, followed by the
\* raw quotes of the LLM result, and the source column is the source tags of
\* the records; in both an empty string is left out, what equals an earlier
\* entry after lower-casing and trimming is left out, and the entries left
\* are joined with "; ".
C26_ConsolidatedColumns ==
    Merged =>
        LET quotes == IF llm_result.kind = "result"
                         /\ "evidence_quotes" \in DOMAIN llm_result.values
                      THEN [i \in 1..Len(llm_result.values["evidence_quotes"].items) |->
                               llm_result.values["evidence_quotes"].items[i].s]
                      ELSE <<>>
            evidences == [i \in 1..Len(field_data) |-> field_data[i].evidence] \o quotes
            sources == [i \in 1..Len(field_data) |-> field_data[i].source]
        IN  /\ row[EVIDENCE_COLUMN] = JStr(JoinStrs(<<";", " ">>, FirstOccurrences(evidences)))
            /\ row[SOURCE_COLUMN] = JStr(JoinStrs(<<";", " ">>, FirstOccurrences(sources)))

\* A merged document with rule hits from a snippet, fields the LLM filled,
\* and two quotes: the evidence column ends with the two quotes, which
\* follow their joined form, and two fields share one source tag.
C26_Witness ==
    /\ Merged
    /\ llm_result.kind = "result"
    /\ "evidence_quotes" \in DOMAIN llm_result.values
    /\ Len(llm_result.values["evidence_quotes"].items) = 2
    /\ \E i, j \in 1..Len(field_data) :
          /\ i < j
          /\ field_data[i].source # <<"llm">>
          /\ field_data[j].source = <<"llm">>
          /\ field_data[j].evidence # llm_result.values["evidence_quotes"].items[1].s
    /\ \E i, j \in 1..Len(field_data) : i # j /\ field_data[i].source = field_data[j].source
    /\ Len(row[EVIDENCE_COLUMN].s) > Len(row[SOURCE_COLUMN].s)

-----------------------------------------------------------------------------
(* Properties of a low-confidence primary result (specification Spec) *)

\* C28: whenever the primary backend returns a non-empty object, fill_fields
\* returns a result, and the confidence of that result is at least the
\* confidence _post_process stores for the primary's object, whatever the
\* threshold and whatever the fallback client is or answers.
C28_PrimaryResultNeverDiscarded ==
    (/\ pc = "done"
     /\ ~NoWork(inp)
     /\ inp.primary_client = "available"
     /\ ~PrimaryAnswer.raises
     /\ PrimaryAnswer.parsed.t = "object"
     /\ PyTruthy(PrimaryAnswer.parsed))
    => /\ ret.kind = "result"
       /\ Get(ret.values, "confidence").n
              >= Get(_post_process(PrimaryAnswer.parsed.obj).data, "confidence").n

-----------------------------------------------------------------------------
(* Properties of the calls of process_one (specification SpecProcess) *)

\* The calls of one function among those made so far.
CallsOf(fn) == {k \in 1..Len(calls) : calls[k].fn = fn}

\* process_one has returned through its except clause.
Failed ==
    /\ outcome.kind = "returned"
    /\ outcome.row["Problems"].s # <<>>
    /\ outcome.row["Problems"].s[1] = "ERROR:"

\* C29: process_one calls fill_fields at most once, and only with the LLM
\* enabled, a paper text obtained and an LLM field without a rule hit; the
\* missing_fields it hands over are the LLM fields without a rule hit, so
\* none of them has one; and when process_one returns without having
\* failed, merge_clinical and write_artifacts have each been called once,
\* in this order and after fill_fields.
C29_CallsOfProcessOne ==
    /\ Cardinality(CallsOf("fill_fields")) <= 1
    /\ \A k \in CallsOf("fill_fields") :
          LET given == {calls[k].missing_fields[i] :
                           i \in 1..Len(calls[k].missing_fields)}
          IN  /\ args.enable_llm
              /\ args.enable_papers
              /\ assets.text # <<>>
              /\ given # {}
              /\ given = {LLM_FIELDS[i] : i \in 1..Len(LLM_FIELDS)} \ HitFields(rule_hits)
              /\ given \cap HitFields(rule_hits) = {}
              /\ k = 1
    /\ (ppc = "done" /\ ~Failed) =>
          /\ Cardinality(CallsOf("merge_clinical")) = 1
          /\ Cardinality(CallsOf("write_artifacts")) = 1
          /\ calls[Len(calls)].fn = "write_artifacts"
          /\ calls[Len(calls) - 1].fn = "merge_clinical"

\* process_one has returned a row after calling fill_fields, merge_clinical
\* and write_artifacts, for a paper in which the rules hit some LLM fields
\* and left others to the LLM.
C29_Witness ==
    /\ ppc = "done"
    /\ ~Failed
    /\ Len(calls) = 3
    /\ calls[1].fn = "fill_fields"
    /\ HitFields(rule_hits) \cap {LLM_FIELDS[i] : i \in 1..Len(LLM_FIELDS)} # {}
    /\ Len(calls[1].missing_fields) < Len(LLM_FIELDS)
    /\ llm_result.kind = "result"

====
